---- MODULE Spec2Model ----
(***************************************************************************)
(* Verification model of the top-down arcade simulation (Game, Player,     *)
(* NPC/NPCManager, Vehicle/VehicleManager, Weapon/Bullet/BulletManager,    *)
(* CollisionSystem).                                                       *)
(*                                                                         *)
(* Specification Spec is the game loop: one Game.update call is walked     *)
(* through in the order of its statements (pc), the two bullet hit loops   *)
(* bullet by bullet (loop index i).  Positions lie on a line of cells 550  *)
(* pixels apart, so every range test of the code (hit radii, vision,       *)
(* auto-shoot, spawn ring, despawn) is computed from coordinates; what the *)
(* code derives from real-valued time and velocity (displacement per       *)
(* frame, cooldowns elapsed, facing angle, whether two bodies of one cell   *)
(* touch) is an input chosen with \E.  The two managers' population caps    *)
(* (maxNPCs, maxVehicles) are scaled down and fixed per run in Init.        *)
(***************************************************************************)
EXTENDS Integers, Sequences, FiniteSets, TLC

\* ------------------------------------------------------------- bounds
\* last cell of the world line
MaxCell == 1
\* largest maxNPCs of a run (5 in the source)
MaxLiveNPCs == 1
\* largest maxVehicles of a run (5 in the source)
MaxLiveVehicles == 2
\* cap on npcIdCounter and vehicleIdCounter
MaxNpcId == 1
MaxVehicleId == 2
\* caps on the length of the player's and of the NPCs' bullet list
MaxPlayerBullets == 2
MaxNpcBullets == 1
\* the combat pass on its own: NPCs, vehicles and bullets in flight at its start
PassNPCs == 2
PassVehicles == 2
PassBullets == 2
\* last instant of the clock in the weapon runs, in tenths of a second
MaxTime == 12
\* cap on the player's bullets in flight in the weapon runs
MaxFlight == 8
\* reserve ammo is added while the reserve holds fewer full magazines than this
MaxMagazines == 2
\* NPC ids handed out in a run of the shoot callback
MaxShooterId == 2
\* the longest frame of such a run, in tenths of a second
MaxFrame == 3
\* the side of the part of the plane a collision run stays in, in steps of 5 pixels
MaxGrid == 3
\* calls made on the vehicle in a run of the vehicle's physics
MaxDriveCalls == 6
\* bullets made in a run of a bullet manager, and bullets it holds at a time
MaxBulletsMade == 3
MaxInFlight == 2
\* times the F key goes down and frames run in a run of the input manager
MaxPresses == 3
MaxTicks == 6
\* the times an NPC on patrol sees the player or is shot at in a run
MaxSightings == 2
\* the longest vector whose length is taken, in pixels
MaxLength == 1000

\* ------------------------------------------------- program constants
playerRadius == 8
playerMaxHealth == 100
autoShootRange == 300
npcRadius == 6
npcMaxHealth == 50
\* NPC.speed, in pixels per second, and NPC.idleDuration, in tenths of a second
npcSpeed == 40
idleDuration == 20
\* NPC.updatePatrol: a waypoint is reached at less than this distance
arrivalDistance == 10
visionRange == 125
\* NPC.visionAngle, in degrees
visionAngle == 120
fleeRange == 150
\* NPC.shotCooldown, in tenths of a second
shotCooldown == 5
vehicleWidth == 40
vehicleHeight == 24
\* Vehicle.maxSpeed and Vehicle.acceleration, in pixels per second
maxSpeed == 900
acceleration == 450
\* Vehicle.friction, in hundredths, and Vehicle.restitution, in tenths
friction == 98
restitution == 6
\* Player.exitVehicle: the distance between the vehicle and the exit position
offsetDistance == 50
vehicleMaxHealth == 100
npcDespawnRange == 1000
vehicleDespawnRange == 1200
pistolDamage == 10
pistolBulletSize == 3
npcBulletDamage == 10
npcBulletSize == 3

\* ------------------------------------------------------------ helpers
World == {550 * c : c \in 0..MaxCell}

\* Vector2.distance on the world line
Distance(a, b) == IF a >= b THEN a - b ELSE b - a

Max(a, b) == IF a >= b THEN a ELSE b

\* Vehicle.getRadius
VehicleRadius == Max(vehicleWidth, vehicleHeight) \div 2

\* positions one frame's displacement away (or none)
Neighbors(p) == {q \in World : Distance(p, q) <= 550}

\* iteration order of a Map whose keys were inserted by a rising counter
RECURSIVE SortedIds(_)
SortedIds(S) ==
  IF S = {} THEN <<>>
  ELSE LET m == CHOOSE x \in S : \A y \in S : x <= y
       IN <<m>> \o SortedIds(S \ {m})

\* Array.splice(index, 1)
RemoveAt(s, k) == [j \in 1..(Len(s) - 1) |-> IF j < k THEN s[j] ELSE s[j + 1]]

\* the elements of s whose index is not in drop, in order
RECURSIVE Keep(_, _)
Keep(s, drop) ==
  IF s = <<>> THEN <<>>
  ELSE LET n == Len(s)
           front == Keep(SubSeq(s, 1, n - 1), drop)
       IN IF n \in drop THEN front ELSE Append(front, s[n])

\* null in Player.currentVehicle, null in NPC.targetPosition, no entity found
NoVehicle == -1
NoTarget == -1
None == -1
EmptyMap == [x \in {} |-> x]

VARIABLES
  weapon,           \* the Weapon in the player's hand
  weapons,          \* Player.weapons: WeaponType -> Weapon
  currentWeaponType,   \* Player.currentWeaponType
  weaponBeforeVehicle, \* Player.weaponBeforeVehicle
  shouldFire,       \* Player.shouldFire
  now,              \* the clock, performance.now(), in tenths of a second
  lastCall,         \* history: the last call made on an entity or a weapon
  maxNPCs,          \* NPCManager.maxNPCs
  maxVehicles,      \* VehicleManager.maxVehicles
  pc,               \* position inside Game.update
  i,                \* loop index of the bullet hit loops
  gameOver, score,  \* Game.gameOver, Game.score
  player,           \* Player: position, health, isDead, currentVehicle
  playerBullets,    \* Player.bulletManager.bullets
  npcs,             \* NPCManager.npcs: id -> NPC
  npcIdCounter,     \* NPCManager.npcIdCounter
  vehicleObjs,      \* the Vehicle objects still referenced: id -> Vehicle
  vehicles,         \* keys of VehicleManager.vehicles
  vehicleIdCounter, \* VehicleManager.vehicleIdCounter
  npcBullets,       \* Game.npcBulletManager.bullets
  colliders,        \* keys of CollisionSystem.colliders
  moved,            \* history: what has been moved in this Game.update (in a
                    \* vehicle run: the operations called so far)
  hits,             \* history: hits registered in this Game.update
  deadActed,        \* history: what NPC.update did on dead NPCs in this Game.update
  createNPCWrapped, \* Game.setupNPCShootCallback has replaced npcManager.createNPC
  onShoot,          \* the NPCs whose onShoot callback is set
  lastShotTime,     \* NPC.lastShotTime: id -> time, in tenths of a second
  keys,             \* InputManager.keys: key -> down
  keysJustPressed,  \* InputManager.keysJustPressed
  lastReloadTime,   \* Player.lastReloadTime, in tenths of a second
  registry          \* CollisionSystem.colliders: id -> Collider, in the plane

\* the state only the runs on single objects change
unitVars ==
  <<createNPCWrapped, onShoot, lastShotTime, keys, keysJustPressed, lastReloadTime,
    registry>>

\* what the game loop and the combat pass leave alone
weaponVars ==
  <<weapon, shouldFire, now, lastCall, weapons, currentWeaponType,
    weaponBeforeVehicle, unitVars>>

vars == <<weaponVars, maxNPCs, maxVehicles, pc, i, gameOver, score, player, playerBullets, npcs, npcIdCounter,
          vehicleObjs, vehicles, vehicleIdCounter, npcBullets, colliders,
          moved, hits, deadActed>>

PlayerId == <<"player", 0>>
\* the key of no entity: a bullet that was counted as hitting nothing
NoBody == <<"none", 0>>
NpcKey(n) == <<"npc", n>>
VehicleKey(v) == <<"vehicle", v>>

\* new Player(new Vector2(0, 0))
NewPlayer ==
  [position |-> 0, health |-> playerMaxHealth, isDead |-> FALSE,
   currentVehicle |-> NoVehicle]

\* new NPC(id, position) followed by setPatrolPoints (behavior Patrol, target the
\* first waypoint, which is the spawn position)
NewNPC(p) ==
  [position |-> p, health |-> npcMaxHealth, isDead |-> FALSE,
   behavior |-> "patrol", targetPosition |-> p, patrolPoint |-> p]

\* new Vehicle(id, position)
NewVehicle(p) ==
  [position |-> p, health |-> vehicleMaxHealth, isDead |-> FALSE,
   occupantId |-> "none"]

\* ------------------------------------------------------------ takeDamage
\* Player.takeDamage without the floor at 0
PlayerTakeDamage_NoFloor(p, damage) ==
  IF p.isDead THEN p
  ELSE IF p.health - damage <= 0
       THEN [p EXCEPT !.health = p.health - damage, !.isDead = TRUE]
       ELSE [p EXCEPT !.health = p.health - damage]

\* Player.takeDamage
PlayerTakeDamage(p, damage) ==
  IF p.isDead THEN p
  ELSE IF p.health - damage <= 0
       THEN [p EXCEPT !.health = 0, !.isDead = TRUE]
       ELSE [p EXCEPT !.health = p.health - damage]

\* NPC.takeDamage without its isDead test
NPCTakeDamage_NoDeadTest(n, damage, attackerPosition) ==
  LET h == IF n.health - damage <= 0
           THEN [n EXCEPT !.health = 0, !.isDead = TRUE]
           ELSE [n EXCEPT !.health = n.health - damage]
  IN IF attackerPosition # NoTarget
     THEN [h EXCEPT !.behavior = "chase", !.targetPosition = attackerPosition]
     ELSE h

\* NPC.takeDamage that makes the NPC flee from the attacker
NPCTakeDamage_Flee(n, damage, attackerPosition) ==
  IF n.isDead THEN n
  ELSE LET h == IF n.health - damage <= 0
                THEN [n EXCEPT !.health = 0, !.isDead = TRUE]
                ELSE [n EXCEPT !.health = n.health - damage]
       IN IF attackerPosition # NoTarget
          THEN [h EXCEPT !.behavior = "flee", !.targetPosition = attackerPosition]
          ELSE h

\* NPC.takeDamage that turns to the attacker only from patrol
NPCTakeDamage_ChaseFromPatrol(n, damage, attackerPosition) ==
  IF n.isDead THEN n
  ELSE LET h == IF n.health - damage <= 0
                THEN [n EXCEPT !.health = 0, !.isDead = TRUE]
                ELSE [n EXCEPT !.health = n.health - damage]
       IN IF attackerPosition # NoTarget /\ n.behavior = "patrol"
          THEN [h EXCEPT !.behavior = "chase", !.targetPosition = attackerPosition]
          ELSE h

\* NPC.takeDamage(damage, attackerPosition)
NPCTakeDamage(n, damage, attackerPosition) ==
  IF n.isDead THEN n
  ELSE LET h == IF n.health - damage <= 0
                THEN [n EXCEPT !.health = 0, !.isDead = TRUE]
                ELSE [n EXCEPT !.health = n.health - damage]
       IN IF attackerPosition # NoTarget
          THEN [h EXCEPT !.behavior = "chase", !.targetPosition = attackerPosition]
          ELSE h

\* Vehicle.takeDamage with the damage taken off twice
VehicleTakeDamage_Twice(v, damage) ==
  IF v.isDead THEN v
  ELSE IF v.health - 2 * damage <= 0
       THEN [v EXCEPT !.health = 0, !.isDead = TRUE]
       ELSE [v EXCEPT !.health = v.health - 2 * damage]

\* Vehicle.takeDamage
VehicleTakeDamage(v, damage) ==
  IF v.isDead THEN v
  ELSE IF v.health - damage <= 0
       THEN [v EXCEPT !.health = 0, !.isDead = TRUE]
       ELSE [v EXCEPT !.health = v.health - damage]

\* ------------------------------------------------------------ Weapon
\* Weapon.getWeaponConfig; reloadTime in tenths of a second
WeaponTypes == {"pistol", "rifle", "shotgun"}

Config(type) ==
  CASE type = "pistol" ->
         [damage |-> pistolDamage, fireRate |-> 5, range |-> 300,
          bulletSize |-> pistolBulletSize, magazineCapacity |-> 10, reloadTime |-> 8, fireMode |-> "semi_auto",
          pelletsPerShot |-> 1]
    [] type = "rifle" ->
         [damage |-> 20, fireRate |-> 8, range |-> 500, bulletSize |-> 4,
          magazineCapacity |-> 30, reloadTime |-> 20, fireMode |-> "full_auto",
          pelletsPerShot |-> 1]
    [] type = "shotgun" ->
         [damage |-> 15, fireRate |-> 1, range |-> 150, bulletSize |-> 2,
          magazineCapacity |-> 6, reloadTime |-> 12, fireMode |-> "semi_auto",
          pelletsPerShot |-> 8]

\* the reserve of the player's first pistol
Infinity == 1000000

\* new Weapon(type, reserveAmmo)
NewWeapon(type, reserveAmmo) ==
  [type |-> type, currentAmmo |-> Config(type).magazineCapacity,
   reserveAmmo |-> reserveAmmo, lastFireTime |-> 0, isReloading |-> FALSE,
   reloadStartTime |-> 0, isMouseDown |-> FALSE]

\* currentTime - lastFireTime >= fireInterval, fireInterval = 1 / fireRate seconds
IntervalElapsed(w, currentTime) ==
  (currentTime - w.lastFireTime) * Config(w.type).fireRate >= 10

\* Weapon.canFire without its first test
CanFire_NoAmmoTest(w, currentTime) ==
  IF Config(w.type).fireMode = "semi_auto"
  THEN IntervalElapsed(w, currentTime)
  ELSE w.isMouseDown /\ IntervalElapsed(w, currentTime)

\* Weapon.canFire
CanFire(w, currentTime) ==
  IF w.currentAmmo <= 0 \/ w.isReloading THEN FALSE
  ELSE IF Config(w.type).fireMode = "semi_auto"
       THEN IntervalElapsed(w, currentTime)
       ELSE w.isMouseDown /\ IntervalElapsed(w, currentTime)

\* Weapon.fire that forgets to stamp lastFireTime
Fire_NoStamp(w, currentTime) ==
  IF ~CanFire(w, currentTime) THEN w
  ELSE [w EXCEPT !.currentAmmo = w.currentAmmo - 1]

\* Weapon.fire: the weapon afterwards (the value returned is CanFire)
Fire(w, currentTime) ==
  IF ~CanFire(w, currentTime) THEN w
  ELSE [w EXCEPT !.currentAmmo = w.currentAmmo - 1, !.lastFireTime = currentTime]

\* Weapon.startReload without the test for a reload under way
StartReload_NoReloadingTest(w, currentTime) ==
  IF w.currentAmmo = Config(w.type).magazineCapacity THEN w
  ELSE IF w.reserveAmmo > 0
       THEN [w EXCEPT !.isReloading = TRUE, !.reloadStartTime = currentTime]
       ELSE w

\* Weapon.startReload
StartReload(w, currentTime) ==
  IF w.isReloading \/ w.currentAmmo = Config(w.type).magazineCapacity THEN w
  ELSE IF w.reserveAmmo > 0
       THEN [w EXCEPT !.isReloading = TRUE, !.reloadStartTime = currentTime]
       ELSE w

Min(a, b) == IF a <= b THEN a ELSE b

\* Weapon.updateReload that does not debit the reserve
UpdateReload_NoDebit(w, currentTime) ==
  IF ~w.isReloading THEN w
  ELSE IF currentTime - w.reloadStartTime >= Config(w.type).reloadTime
       THEN LET needAmmo == Config(w.type).magazineCapacity - w.currentAmmo
                reloadAmmo == Min(needAmmo, w.reserveAmmo)
            IN [w EXCEPT !.isReloading = FALSE,
                         !.currentAmmo = w.currentAmmo + reloadAmmo]
       ELSE w

\* Weapon.updateReload that loads the whole reserve, without Math.min
UpdateReload_NoMin(w, currentTime) ==
  IF ~w.isReloading THEN w
  ELSE IF currentTime - w.reloadStartTime >= Config(w.type).reloadTime
       THEN [w EXCEPT !.isReloading = FALSE,
                      !.currentAmmo = w.currentAmmo + w.reserveAmmo,
                      !.reserveAmmo = IF w.reserveAmmo = Infinity THEN Infinity
                                      ELSE 0]
       ELSE w

\* Weapon.updateReload
UpdateReload(w, currentTime) ==
  IF ~w.isReloading THEN w
  ELSE IF currentTime - w.reloadStartTime >= Config(w.type).reloadTime
       THEN LET needAmmo == Config(w.type).magazineCapacity - w.currentAmmo
                reloadAmmo == Min(needAmmo, w.reserveAmmo)
            IN [w EXCEPT !.isReloading = FALSE,
                         !.currentAmmo = w.currentAmmo + reloadAmmo,
                         !.reserveAmmo = IF w.reserveAmmo = Infinity THEN Infinity
                                         ELSE w.reserveAmmo - reloadAmmo]
       ELSE w

\* Weapon.addReserveAmmo
AddReserveAmmo(w, amount) ==
  [w EXCEPT !.reserveAmmo = IF w.reserveAmmo = Infinity THEN Infinity
                            ELSE w.reserveAmmo + amount]

\* Weapon.setMouseDown
SetMouseDown(w, isDown) == [w EXCEPT !.isMouseDown = isDown]

\* new Bullet(...) of Player.fire with the weapon's damage, range and bulletSize
\* and the player's id as owner
WeaponBullet(w, p) ==
  [position |-> p, damage |-> Config(w.type).damage,
   size |-> Config(w.type).bulletSize, range |-> Config(w.type).range,
   ownerId |-> "player"]

\* Player.fire that adds one bullet whatever pelletsPerShot says
PlayerFireOutcome_OnePellet(w, sf, enemy, currentTime) ==
  IF ~enemy THEN [weapon |-> w, shouldFire |-> FALSE, bullets |-> 0]
  ELSE IF w.currentAmmo <= 0
  THEN [weapon |-> IF w.reserveAmmo > 0 THEN StartReload(w, currentTime) ELSE w,
        shouldFire |-> sf, bullets |-> 0]
  ELSE IF CanFire(w, currentTime)
  THEN [weapon |-> Fire(w, currentTime), shouldFire |-> FALSE, bullets |-> 1]
  ELSE [weapon |-> w, shouldFire |-> TRUE, bullets |-> 0]

\* Player.fire(currentTime): the weapon and shouldFire afterwards and the number of
\* bullets added; enemy tells whether findNearestEnemy found somebody
PlayerFireOutcome(w, sf, enemy, currentTime) ==
  IF ~enemy THEN [weapon |-> w, shouldFire |-> FALSE, bullets |-> 0]
  ELSE IF w.currentAmmo <= 0
  THEN [weapon |-> IF w.reserveAmmo > 0 THEN StartReload(w, currentTime) ELSE w,
        shouldFire |-> sf, bullets |-> 0]
  ELSE IF CanFire(w, currentTime)
  THEN [weapon |-> Fire(w, currentTime), shouldFire |-> FALSE,
        bullets |-> Config(w.type).pelletsPerShot]
  ELSE [weapon |-> w, shouldFire |-> TRUE, bullets |-> 0]

\* ------------------------------------------------------------ Init
\* the population caps of a run: a world of NPCs or a world of vehicles
Caps == {<<MaxLiveNPCs, 0>>, <<0, MaxLiveVehicles>>}

\* the keys the game reads in vehicle interaction and on the game-over screen
Keys == {"f", "r"}

\* new InputManager(): no key down, none just pressed
InitInput ==
  /\ keys = [k \in Keys |-> FALSE]
  /\ keysJustPressed = {}

\* the state of the runs on single objects, where a run does not use it
InitUnitVars ==
  /\ createNPCWrapped = TRUE
  /\ InitInput
  /\ lastReloadTime = 0
  /\ onShoot = {}
  /\ lastShotTime = EmptyMap
  /\ registry = EmptyMap

\* the weapon side at construction: the pistol with its endless reserve
InitWeaponVars ==
  /\ InitUnitVars
  /\ weapon = NewWeapon("pistol", Infinity)
  /\ shouldFire = FALSE
  /\ now = 0
  /\ lastCall = [op |-> "new"]
  /\ weapons = [t \in {"pistol"} |-> NewWeapon("pistol", Infinity)]
  /\ currentWeaponType = "pistol"
  /\ weaponBeforeVehicle = "pistol"

Init ==
  /\ InitWeaponVars
  /\ \E c \in Caps : maxNPCs = c[1] /\ maxVehicles = c[2]
  /\ pc = "update"
  /\ i = 0
  /\ gameOver = FALSE
  /\ score = 0
  /\ player = NewPlayer
  /\ playerBullets = <<>>
  /\ npcs = EmptyMap
  /\ npcIdCounter = 0
  /\ vehicleObjs = EmptyMap
  /\ vehicles = {}
  /\ vehicleIdCounter = 0
  /\ npcBullets = <<>>
  /\ colliders = {PlayerId}
  /\ moved = {}
  /\ hits = <<>>
  /\ deadActed = {}

\* ------------------------------------------------------------ Player
\* Player.findNearestEnemy finds somebody: a live NPC nearer than autoShootRange
EnemyInRange ==
  \E n \in DOMAIN npcs :
    /\ ~npcs[n].isDead
    /\ Distance(player.position, npcs[n].position) < autoShootRange

\* new Bullet(position, direction, damage, speed, range, size, playerId) of the pistol
PistolBullet(p) ==
  [position |-> p, damage |-> pistolDamage, size |-> pistolBulletSize]

\* Game.update, first part: Player.fire(currentTime).  shot is the outcome of
\* Weapon.fire(currentTime), which depends on the clock and the magazine.
PlayerFire ==
  /\ pc = "update"
  /\ ~gameOver
  /\ \E shot \in BOOLEAN :
       playerBullets' =
         IF EnemyInRange /\ shot /\ Len(playerBullets) < MaxPlayerBullets
         THEN Append(playerBullets, PistolBullet(player.position))
         ELSE playerBullets
  /\ pc' = "playerUpdate"
  /\ UNCHANGED <<weaponVars, maxNPCs, maxVehicles, i, gameOver, score, player, npcs, npcIdCounter, vehicleObjs,
                 vehicles, vehicleIdCounter, npcBullets, colliders, moved, hits,
                 deadActed>>

\* Player.update: the bullets advance (BulletManager.update drops those whose
\* distanceTraveled exceeds the range); on foot the player moves with axis
\* sliding, in a vehicle the position follows the vehicle.
PlayerUpdate ==
  /\ pc = "playerUpdate"
  /\ \E gone \in SUBSET (1..Len(playerBullets)) :
       playerBullets' = Keep(playerBullets, gone)
  /\ IF player.currentVehicle # NoVehicle
     THEN player' = [player EXCEPT
                       !.position = vehicleObjs[player.currentVehicle].position]
     ELSE \E q \in Neighbors(player.position) :
            player' = [player EXCEPT !.position = q]
  /\ moved' = moved \cup {"player", "playerBullets"}
  /\ pc' = "vehicleUpdate"
  /\ UNCHANGED <<weaponVars, maxNPCs, maxVehicles, i, gameOver, score, npcs, npcIdCounter, vehicleObjs, vehicles,
                 vehicleIdCounter, npcBullets, colliders, hits, deadActed>>

\* Player.exitVehicle together with Vehicle.exitVehicle: the player is put beside
\* the vehicle (50 pixels away, the same cell) and the vehicle loses its occupant.
\* A vehicle the manager dropped is referenced by nobody afterwards.
PlayerExitVehicle ==
  LET v == player.currentVehicle IN
  /\ player' = [player EXCEPT !.position = vehicleObjs[v].position,
                              !.currentVehicle = NoVehicle]
  /\ vehicleObjs' =
       IF v \in vehicles
       THEN [vehicleObjs EXCEPT ![v].occupantId = "none"]
       ELSE [w \in DOMAIN vehicleObjs \ {v} |-> vehicleObjs[w]]

\* Player.enterVehicle together with Vehicle.enterVehicle
PlayerEnterVehicle(v) ==
  /\ player' = [player EXCEPT !.currentVehicle = v]
  /\ vehicleObjs' = [vehicleObjs EXCEPT ![v].occupantId = "player"]

\* VehicleManager.getNearbyVehicles(position, 100)
NearbyVehicles ==
  {v \in vehicles : Distance(vehicleObjs[v].position, player.position) < 100}

\* Game.handleVehicleInteraction; f is isKeyJustPressed('f')
HandleVehicleInteraction ==
  /\ pc = "vehicleInteraction"
  /\ \E f \in BOOLEAN :
       IF player.currentVehicle # NoVehicle
       THEN IF f THEN PlayerExitVehicle ELSE UNCHANGED <<player, vehicleObjs>>
       ELSE IF NearbyVehicles # {} /\ f
            THEN PlayerEnterVehicle(SortedIds(NearbyVehicles)[1])
            ELSE UNCHANGED <<player, vehicleObjs>>
  /\ pc' = "npcUpdate"
  /\ UNCHANGED <<weaponVars, maxNPCs, maxVehicles, i, gameOver, score, playerBullets, npcs, npcIdCounter, vehicles,
                 vehicleIdCounter, npcBullets, colliders, moved, hits, deadActed>>

\* ------------------------------------------------------------ Vehicle
\* speeds at which a driven vehicle is found blocked on both axes
CrashSpeeds == {300, 900}

\* what Vehicle.update can come to for a driven vehicle: the tentative position
\* (or an axis slide) is committed, or both axes are blocked at collisionSpeed
VehicleOutcomes(v) ==
  {[to |-> q, collisionSpeed |-> 0] : q \in Neighbors(v.position)}
    \cup {[to |-> v.position, collisionSpeed |-> s] : s \in CrashSpeeds}

\* Vehicle.update
VehicleUpdate(v, o) ==
  IF o.collisionSpeed > 50
  THEN VehicleTakeDamage(v, Max(1, o.collisionSpeed \div 30))
  ELSE [v EXCEPT !.position = o.to]

\* VehicleManager.update: every vehicle is updated, the destroyed and the far ones
\* are deleted from the map, and a new one may be spawned 400 to 800 away
VehicleManagerUpdate ==
  /\ pc = "vehicleUpdate"
  /\ LET driven == {v \in vehicles : vehicleObjs[v].occupantId # "none"}
         outcomes == UNION {VehicleOutcomes(vehicleObjs[v]) : v \in driven}
     IN \E o \in [driven -> outcomes], spawn \in BOOLEAN, sp \in World :
          /\ \A v \in driven : o[v] \in VehicleOutcomes(vehicleObjs[v])
          /\ LET updated == [v \in DOMAIN vehicleObjs |->
                               IF v \in driven
                               THEN VehicleUpdate(vehicleObjs[v], o[v])
                               ELSE vehicleObjs[v]]
                 remove == {v \in vehicles :
                              \/ updated[v].isDead
                              \/ Distance(updated[v].position, player.position)
                                   > vehicleDespawnRange}
                 kept == vehicles \ remove
                 spawned == /\ spawn
                            /\ Cardinality(kept) < maxVehicles
                            /\ vehicleIdCounter < MaxVehicleId
                            /\ Distance(sp, player.position) >= 400
                            /\ Distance(sp, player.position) < 800
                 held == kept \cup ({player.currentVehicle} \cap DOMAIN vehicleObjs)
             IN IF spawned
                THEN /\ vehicles' = kept \cup {vehicleIdCounter}
                     /\ vehicleObjs' = [v \in held \cup {vehicleIdCounter} |->
                                          IF v = vehicleIdCounter THEN NewVehicle(sp)
                                          ELSE updated[v]]
                     /\ vehicleIdCounter' = vehicleIdCounter + 1
                     /\ colliders' = colliders \cup {VehicleKey(vehicleIdCounter)}
                ELSE /\ vehicles' = kept
                     /\ vehicleObjs' = [v \in held |-> updated[v]]
                     /\ UNCHANGED <<vehicleIdCounter, colliders>>
  /\ moved' = moved \cup {"vehicles"}
  /\ pc' = "vehicleInteraction"
  /\ UNCHANGED <<weaponVars, maxNPCs, maxVehicles, i, gameOver, score, player, playerBullets, npcs, npcIdCounter,
                 npcBullets, hits, deadActed>>

\* ------------------------------------------------------------ NPC
\* what one NPC.update reads from the clock and the real-valued geometry:
\* facing  - the bearing to the player is within visionAngle / 2 of the direction
\* cooled  - currentTime - lastShotTime >= shotCooldown
\* arrived - the target is less than 10 away (updatePatrol)
\* go      - velocity * deltaTime carries the NPC into the next cell, unblocked
\* timeout - idleTimer + deltaTime > idleDuration (updateIdle)
NPCInput ==
  [facing : BOOLEAN, cooled : BOOLEAN, arrived : BOOLEAN, go : BOOLEAN,
   timeout : BOOLEAN]

\* NPC.isPointInVision
NPCInVision(n, in, playerPosition) ==
  /\ Distance(n.position, playerPosition) <= visionRange
  /\ in.facing

\* the cell one step from p towards target
StepToward(p, target) ==
  IF target = NoTarget \/ target = p THEN p
  ELSE IF target > p THEN p + 550 ELSE p - 550

\* the cell one step from p away from threat
StepAway(p, threat) ==
  LET q == IF threat > p THEN p - 550 ELSE p + 550
  IN IF q \in World THEN q ELSE p

\* NPC.update that leaves a chasing NPC chasing when it does not see the player
NPCPerceive_KeepsChasing(n, seen, playerPosition) ==
  IF seen
  THEN [n EXCEPT !.behavior = "chase", !.targetPosition = playerPosition]
  ELSE n

\* the first half of NPC.update: the player in vision makes the NPC chase the
\* player, a chasing NPC that does not see the player goes back to patrol
NPCPerceive(n, seen, playerPosition) ==
  IF seen
  THEN [n EXCEPT !.behavior = "chase", !.targetPosition = playerPosition]
  ELSE IF n.behavior = "chase" THEN [n EXCEPT !.behavior = "patrol"]
  ELSE n

\* the switch of NPC.update: updateIdle, updatePatrol, updateChase, updateFlee.
\* An NPC without patrol points has patrolPoint = NoTarget.
NPCBehave(a, in, playerPosition) ==
  CASE a.behavior = "idle" ->
         IF in.timeout THEN [a EXCEPT !.behavior = "patrol"] ELSE a
    [] a.behavior = "patrol" ->
         IF a.patrolPoint = NoTarget THEN [a EXCEPT !.behavior = "idle"]
         ELSE LET t == IF a.targetPosition = NoTarget
                       THEN [a EXCEPT !.targetPosition = a.patrolPoint]
                       ELSE a
              IN IF t.targetPosition = t.position /\ in.arrived
                 THEN [t EXCEPT !.targetPosition = t.patrolPoint]
                 ELSE t
    [] a.behavior = "chase" -> a
    [] a.behavior = "flee" ->
         IF Distance(a.position, playerPosition) > fleeRange
         THEN [a EXCEPT !.behavior = "patrol"]
         ELSE a

\* NPC.update: perception, the behaviour switch (updatePatrol / updateChase set the
\* velocity towards targetPosition, updateFlee away from the player, updateIdle
\* and an arrival at a waypoint to zero), then the move with axis sliding.  The
\* waypoints of a route lie within 200 of the spawn position, patrolPoint.
NPCUpdate(n, in, playerPosition) ==
  LET seen == NPCInVision(n, in, playerPosition)
      a == NPCPerceive(n, seen, playerPosition)
      b == NPCBehave(a, in, playerPosition)
      stays == \/ a.behavior = "idle"
               \/ a.behavior = "patrol" /\ a.patrolPoint = NoTarget
               \/ a.behavior = "patrol" /\ a.targetPosition = a.position /\ in.arrived
  IN IF in.go /\ ~stays
     THEN IF a.behavior = "flee" /\ b.behavior = "flee"
          THEN [b EXCEPT !.position = StepAway(b.position, playerPosition)]
          ELSE [b EXCEPT !.position = StepToward(b.position, b.targetPosition)]
     ELSE b

\* NPC.tryShoot fires the callback (every NPC made by the manager has one)
NPCShoots(n, in, playerPosition) ==
  NPCInVision(n, in, playerPosition) /\ in.cooled

\* NPC.tryShoot without the cooldown test
TryShoot_NoCooldown(hasCallback, last, currentTime) == hasCallback

\* NPC.tryShoot: the callback is invoked (and lastShotTime becomes currentTime)
TryShoot(hasCallback, last, currentTime) ==
  hasCallback /\ currentTime - last >= shotCooldown

\* the callback Game.setupNPCShootCallback gives the NPC id: the bullet it adds
\* to npcBulletManager
OnShoot(id, npcPos) ==
  [position |-> npcPos, damage |-> npcBulletDamage, size |-> npcBulletSize,
   range |-> 300, ownerId |-> NpcKey(id)]

\* the bullet made by the callback of Game.setupNPCShootCallback
NPCBullet(p) ==
  [position |-> p, damage |-> npcBulletDamage, size |-> npcBulletSize]

\* the bullets after the NPCs of order have been updated one after the other
RECURSIVE AddShots(_, _, _)
AddShots(bullets, order, in) ==
  IF order = <<>> THEN bullets
  ELSE LET id == Head(order)
           next == IF /\ NPCShoots(npcs[id], in[id], player.position)
                      /\ Len(bullets) < MaxNpcBullets
                   THEN Append(bullets, NPCBullet(npcs[id].position))
                   ELSE bullets
       IN AddShots(next, Tail(order), in)

\* what NPC.update did on NPC id, as seen from outside
NPCActs(id, in) ==
  LET n == npcs[id]
      u == NPCUpdate(n, in, player.position)
  IN {"perception"}
       \cup (IF u.behavior # n.behavior \/ u.targetPosition # n.targetPosition
             THEN {"behaviour"} ELSE {})
       \cup (IF u.position # n.position THEN {"movement"} ELSE {})
       \cup (IF NPCShoots(n, in, player.position) THEN {"shoot"} ELSE {})

\* where NPCManager.spawnNPCsAroundPlayer can put an NPC: 400 to 600 away
SpawnCells(playerPosition) ==
  {q \in World : /\ Distance(q, playerPosition) >= 400
                 /\ Distance(q, playerPosition) < 600}

\* NPCManager.removeNPC
RemoveNPCs(map, remove) == [n \in DOMAIN map \ remove |-> map[n]]

\* NPCManager.update: every NPC of the map is updated, then the dead and the far
\* ones are removed, then new ones are spawned up to the maximum
NPCManagerUpdate ==
  /\ pc = "npcUpdate"
  /\ \E in \in [DOMAIN npcs -> NPCInput] :
       LET order == SortedIds(DOMAIN npcs)
           updated == [n \in DOMAIN npcs |->
                         NPCUpdate(npcs[n], in[n], player.position)]
           remove == {n \in DOMAIN npcs :
                        \/ Distance(updated[n].position, player.position)
                             > npcDespawnRange
                        \/ updated[n].isDead}
           kept == RemoveNPCs(updated, remove)
           room == Max(0, maxNPCs - Cardinality(DOMAIN kept))
           left == MaxNpcId - npcIdCounter
           k == IF room < left THEN room ELSE left
           fresh == npcIdCounter..(npcIdCounter + k - 1)
       IN \E sp \in [fresh -> SpawnCells(player.position)] :
            /\ npcs' = [n \in DOMAIN kept \cup fresh |->
                          IF n \in fresh THEN NewNPC(sp[n]) ELSE kept[n]]
            /\ npcIdCounter' = npcIdCounter + k
            /\ colliders' = colliders \cup {NpcKey(n) : n \in fresh}
            /\ npcBullets' = AddShots(npcBullets, order, in)
            /\ deadActed' = deadActed \cup
                 UNION {NPCActs(n, in[n]) : n \in {m \in DOMAIN npcs : npcs[m].isDead}}
  /\ moved' = moved \cup {"npcs"}
  /\ pc' = "npcBulletUpdate"
  /\ UNCHANGED <<weaponVars, maxNPCs, maxVehicles, i, gameOver, score, player, playerBullets, vehicleObjs, vehicles,
                 vehicleIdCounter, hits>>

\* ------------------------------------------------------------ bullets
\* Game.update with npcBulletManager.update(deltaTime) moved behind the hit tests
NPCBulletUpdate_AfterHitTests ==
  /\ pc = "npcBulletUpdate"
  /\ pc' = "checkBulletsHitBuildings"
  /\ UNCHANGED <<weaponVars, maxNPCs, maxVehicles, i, gameOver, score, player, playerBullets,
                 npcs, npcIdCounter, vehicleObjs, vehicles, vehicleIdCounter,
                 npcBullets, colliders, moved, hits, deadActed>>

\* Game.update: npcBulletManager.update(deltaTime)
NPCBulletUpdate ==
  /\ pc = "npcBulletUpdate"
  /\ \E gone \in SUBSET (1..Len(npcBullets)) :
       npcBullets' = Keep(npcBullets, gone)
  /\ moved' = moved \cup {"npcBullets"}
  /\ pc' = "checkBulletsHitBuildings"
  /\ UNCHANGED <<weaponVars, maxNPCs, maxVehicles, i, gameOver, score, player, playerBullets, npcs, npcIdCounter,
                 vehicleObjs, vehicles, vehicleIdCounter, colliders, hits,
                 deadActed>>

\* Game.checkBulletsHitBuildings: the bullets GameMap.isPointInBuilding finds inside
\* a building are removed from both lists
CheckBulletsHitBuildings ==
  /\ pc = "checkBulletsHitBuildings"
  /\ \E inP \in SUBSET (1..Len(playerBullets)), inN \in SUBSET (1..Len(npcBullets)) :
       /\ playerBullets' = Keep(playerBullets, inP)
       /\ npcBullets' = Keep(npcBullets, inN)
  /\ pc' = "checkBulletHits"
  /\ i' = Len(playerBullets')
  /\ UNCHANGED <<weaponVars, maxNPCs, maxVehicles, gameOver, score, player, npcs, npcIdCounter,
                 vehicleObjs, vehicles, vehicleIdCounter, colliders, moved, hits,
                 deadActed>>

\* bulletPos.distance(targetPos) < bulletRadius + targetRadius.  Bodies of
\* different cells are too far apart; inside one cell touch tells which touch.
Overlaps(b, position, radius, key, touch) ==
  /\ Distance(b.position, position) < b.size + radius
  /\ key \in touch

\* the NPC loop of checkBulletHits without its getIsDead test
RECURSIVE ScanNPCs_NoDeadSkip(_, _, _)
ScanNPCs_NoDeadSkip(b, order, touch) ==
  IF order = <<>> THEN None
  ELSE LET n == Head(order) IN
       IF Overlaps(b, npcs[n].position, npcRadius, NpcKey(n), touch)
       THEN n
       ELSE ScanNPCs_NoDeadSkip(b, Tail(order), touch)

\* the first live NPC of order that the bullet overlaps, or None
RECURSIVE ScanNPCs(_, _, _)
ScanNPCs(b, order, touch) ==
  IF order = <<>> THEN None
  ELSE LET n == Head(order) IN
       IF npcs[n].isDead THEN ScanNPCs(b, Tail(order), touch)
       ELSE IF Overlaps(b, npcs[n].position, npcRadius, NpcKey(n), touch)
            THEN n
            ELSE ScanNPCs(b, Tail(order), touch)

\* the vehicle loop of the hit tests without the test for the player's vehicle
RECURSIVE ScanVehicles_NoSkip(_, _, _, _)
ScanVehicles_NoSkip(b, order, skip, touch) ==
  IF order = <<>> THEN None
  ELSE LET v == Head(order) IN
       IF vehicleObjs[v].isDead
       THEN ScanVehicles_NoSkip(b, Tail(order), skip, touch)
       ELSE IF Overlaps(b, vehicleObjs[v].position, VehicleRadius, VehicleKey(v),
                        touch)
            THEN v
            ELSE ScanVehicles_NoSkip(b, Tail(order), skip, touch)

\* the first live vehicle of order, other than skip, that the bullet overlaps
RECURSIVE ScanVehicles(_, _, _, _)
ScanVehicles(b, order, skip, touch) ==
  IF order = <<>> THEN None
  ELSE LET v == Head(order) IN
       IF vehicleObjs[v].isDead \/ v = skip
       THEN ScanVehicles(b, Tail(order), skip, touch)
       ELSE IF Overlaps(b, vehicleObjs[v].position, VehicleRadius, VehicleKey(v),
                        touch)
            THEN v
            ELSE ScanVehicles(b, Tail(order), skip, touch)

\* the keys of the player, the NPCs and the vehicles the managers hold
Bodies ==
  {PlayerId} \cup {NpcKey(n) : n \in DOMAIN npcs} \cup {VehicleKey(v) : v \in vehicles}

\* history record of one bullet's turn in a hit loop: what it overlapped, which
\* of those were dead already, what it was counted as hitting, the health of
\* that target before and after, and whether the bullet was spliced out
Test(by, b, touch, target, before, after, removed) ==
  [by |-> by,
   removed |-> removed,
   damage |-> b.damage,
   overlap |->
     {k \in touch \cap Bodies :
        \/ k = PlayerId /\ Distance(b.position, player.position) < b.size + playerRadius
        \/ \E n \in DOMAIN npcs :
             k = NpcKey(n) /\ Distance(b.position, npcs[n].position) < b.size + npcRadius
        \/ \E v \in vehicles :
             /\ k = VehicleKey(v)
             /\ Distance(b.position, vehicleObjs[v].position) < b.size + VehicleRadius},
   dead |-> (IF player.isDead THEN {PlayerId} ELSE {})
              \cup {NpcKey(n) : n \in {m \in DOMAIN npcs : npcs[m].isDead}}
              \cup {VehicleKey(v) : v \in {w \in vehicles : vehicleObjs[w].isDead}},
   driving |-> player.currentVehicle,
   target |-> target, before |-> before, after |-> after]

\* Game.checkBulletHits, one turn of the loop over the player's bullets
CheckBulletHitsStep ==
  /\ pc = "checkBulletHits"
  /\ i >= 1
  /\ \E touch \in SUBSET (Bodies \ {PlayerId}) :
       LET b == playerBullets[i]
           n == ScanNPCs(b, SortedIds(DOMAIN npcs), touch)
           v == ScanVehicles(b, SortedIds(vehicles), player.currentVehicle, touch)
       IN IF n # None
          THEN LET after == NPCTakeDamage(npcs[n], b.damage, player.position) IN
               /\ npcs' = [npcs EXCEPT ![n] = after]
               /\ score' = IF after.isDead THEN score + 1 ELSE score
               /\ playerBullets' = RemoveAt(playerBullets, i)
               /\ hits' = Append(hits, Test("player", b, touch, NpcKey(n),
                                            npcs[n].health, after.health, TRUE))
               /\ UNCHANGED vehicleObjs
          ELSE IF v # None
          THEN LET after == VehicleTakeDamage(vehicleObjs[v], b.damage) IN
               /\ vehicleObjs' = [vehicleObjs EXCEPT ![v] = after]
               /\ playerBullets' = RemoveAt(playerBullets, i)
               /\ hits' = Append(hits, Test("player", b, touch, VehicleKey(v),
                                            vehicleObjs[v].health, after.health, TRUE))
               /\ UNCHANGED <<npcs, score>>
          ELSE /\ hits' = Append(hits, Test("player", b, touch, NoBody, 0, 0, FALSE))
               /\ UNCHANGED <<npcs, score, playerBullets, vehicleObjs>>
  /\ i' = i - 1
  /\ UNCHANGED <<weaponVars, maxNPCs, maxVehicles, pc, gameOver, player, npcIdCounter, vehicles,
                 vehicleIdCounter, npcBullets, colliders, moved, deadActed>>

\* Game.checkBulletHits returns; Game.checkNPCBulletHits starts
CheckBulletHitsDone ==
  /\ pc = "checkBulletHits"
  /\ i = 0
  /\ pc' = "checkNPCBulletHits"
  /\ i' = Len(npcBullets)
  /\ UNCHANGED <<weaponVars, maxNPCs, maxVehicles, gameOver, score, player, playerBullets, npcs,
                 npcIdCounter, vehicleObjs, vehicles, vehicleIdCounter, npcBullets,
                 colliders, moved, hits, deadActed>>

\* Game.checkNPCBulletHits, one turn of the loop over the NPC bullets
CheckNPCBulletHitsStep ==
  /\ pc = "checkNPCBulletHits"
  /\ i >= 1
  /\ \E touch \in SUBSET ({PlayerId} \cup {VehicleKey(w) : w \in vehicles}) :
       LET b == npcBullets[i]
           onPlayer == /\ player.currentVehicle = NoVehicle
                       /\ Overlaps(b, player.position, playerRadius, PlayerId, touch)
           v == ScanVehicles(b, SortedIds(vehicles), None, touch)
       IN IF onPlayer
          THEN LET after == PlayerTakeDamage(player, b.damage) IN
               /\ player' = after
               /\ npcBullets' = RemoveAt(npcBullets, i)
               /\ hits' = Append(hits, Test("npc", b, touch, PlayerId,
                                            player.health, after.health, TRUE))
               /\ UNCHANGED vehicleObjs
          ELSE IF v # None
          THEN LET after == VehicleTakeDamage(vehicleObjs[v], b.damage) IN
               /\ vehicleObjs' = [vehicleObjs EXCEPT ![v] = after]
               /\ npcBullets' = RemoveAt(npcBullets, i)
               /\ hits' = Append(hits, Test("npc", b, touch, VehicleKey(v),
                                            vehicleObjs[v].health, after.health, TRUE))
               /\ UNCHANGED player
          ELSE /\ hits' = Append(hits, Test("npc", b, touch, NoBody, 0, 0, FALSE))
               /\ UNCHANGED <<player, npcBullets, vehicleObjs>>
  /\ i' = i - 1
  /\ UNCHANGED <<weaponVars, maxNPCs, maxVehicles, pc, gameOver, score, playerBullets, npcs,
                 npcIdCounter, vehicles, vehicleIdCounter, colliders, moved,
                 deadActed>>

\* Game.checkNPCBulletHits returns
CheckNPCBulletHitsDone ==
  /\ pc = "checkNPCBulletHits"
  /\ i = 0
  /\ pc' = "cleanupNPCBullets"
  /\ UNCHANGED <<weaponVars, maxNPCs, maxVehicles, i, gameOver, score, player, playerBullets, npcs, npcIdCounter,
                 vehicleObjs, vehicles, vehicleIdCounter, npcBullets, colliders,
                 moved, hits, deadActed>>

\* Game.cleanupNPCBullets: NPC bullets more than 1000 from the player are removed
CleanupNPCBullets ==
  /\ pc = "cleanupNPCBullets"
  /\ npcBullets' = Keep(npcBullets,
       {k \in 1..Len(npcBullets) :
          Distance(npcBullets[k].position, player.position) > 1000})
  /\ pc' = "checkDestroyedVehicles"
  /\ UNCHANGED <<weaponVars, maxNPCs, maxVehicles, i, gameOver, score, player, playerBullets, npcs, npcIdCounter,
                 vehicleObjs, vehicles, vehicleIdCounter, colliders, moved, hits,
                 deadActed>>

\* VehicleManager.getPlayerVehicle('player'): the first vehicle of the map whose
\* occupant is the player, or None
PlayerVehicle ==
  LET mine == {v \in vehicles : vehicleObjs[v].occupantId = "player"}
  IN IF mine = {} THEN None ELSE SortedIds(mine)[1]

\* Game.checkDestroyedVehicles
CheckDestroyedVehicles ==
  /\ pc = "checkDestroyedVehicles"
  /\ IF /\ player.currentVehicle # NoVehicle
        /\ PlayerVehicle # None
        /\ vehicleObjs[PlayerVehicle].isDead
     THEN PlayerExitVehicle
     ELSE UNCHANGED <<player, vehicleObjs>>
  /\ pc' = "endUpdate"
  /\ UNCHANGED <<weaponVars, maxNPCs, maxVehicles, i, gameOver, score, playerBullets, npcs, npcIdCounter, vehicles,
                 vehicleIdCounter, npcBullets, colliders, moved, hits, deadActed>>

\* ------------------------------------------------------------ Game
\* Game.update, last part: the game is over once the player is dead
EndUpdate ==
  /\ pc = "endUpdate"
  /\ gameOver' = (gameOver \/ player.isDead)
  /\ pc' = "update"
  /\ moved' = {}
  /\ hits' = <<>>
  /\ deadActed' = {}
  /\ UNCHANGED <<weaponVars, maxNPCs, maxVehicles, i, score, player, playerBullets, npcs, npcIdCounter, vehicleObjs,
                 vehicles, vehicleIdCounter, npcBullets, colliders>>

\* Game.restartGame that keeps the score
RestartGame_KeepsScore ==
  /\ score' = score
  /\ gameOver' = FALSE
  /\ npcBullets' = <<>>
  /\ player' = NewPlayer
  /\ weapons' = [t \in {"pistol"} |-> NewWeapon("pistol", Infinity)]
  /\ currentWeaponType' = "pistol"
  /\ weaponBeforeVehicle' = "pistol"
  /\ playerBullets' = <<>>
  /\ colliders' = colliders \cup {PlayerId}
  /\ npcs' = EmptyMap
  /\ npcIdCounter' = 0
  /\ vehicleObjs' = [v \in vehicles |-> vehicleObjs[v]]
  /\ UNCHANGED <<vehicles, vehicleIdCounter>>

\* Game.restartGame: a new Player (registered again under 'player', with the
\* weapons of a new Player), a new NPCManager and a new ItemManager; the vehicle
\* manager and the registry stay
RestartGame ==
  /\ score' = 0
  /\ gameOver' = FALSE
  /\ npcBullets' = <<>>
  /\ player' = NewPlayer
  /\ weapons' = [t \in {"pistol"} |-> NewWeapon("pistol", Infinity)]
  /\ currentWeaponType' = "pistol"
  /\ weaponBeforeVehicle' = "pistol"
  /\ playerBullets' = <<>>
  /\ colliders' = colliders \cup {PlayerId}
  /\ npcs' = EmptyMap
  /\ npcIdCounter' = 0
  /\ vehicleObjs' = [v \in vehicles |-> vehicleObjs[v]]
  /\ UNCHANGED <<vehicles, vehicleIdCounter>>

\* Game.update while the game is over; r is isKeyPressed('r')
GameOverUpdate ==
  /\ pc = "update"
  /\ gameOver
  /\ \E r \in BOOLEAN :
       IF r THEN RestartGame
       ELSE UNCHANGED <<score, gameOver, npcBullets, player, playerBullets,
                        colliders, npcs, npcIdCounter, vehicleObjs, vehicles,
                        vehicleIdCounter, weapons, currentWeaponType,
                        weaponBeforeVehicle>>
  /\ UNCHANGED <<weapon, shouldFire, now, lastCall, unitVars, maxNPCs, maxVehicles,
                 pc, i, moved, hits, deadActed>>

Next ==
  \/ GameOverUpdate
  \/ PlayerFire
  \/ PlayerUpdate
  \/ VehicleManagerUpdate
  \/ HandleVehicleInteraction
  \/ NPCManagerUpdate
  \/ NPCBulletUpdate
  \/ CheckBulletsHitBuildings
  \/ CheckBulletHitsStep
  \/ CheckBulletHitsDone
  \/ CheckNPCBulletHitsStep
  \/ CheckNPCBulletHitsDone
  \/ CleanupNPCBullets
  \/ CheckDestroyedVehicles
  \/ EndUpdate

Spec == Init /\ [][Next]_vars

\* ------------------------------------------------------------ combat pass
\* everything Game.update moves before the hit tests
AllMoved == {"player", "playerBullets", "vehicles", "npcs", "npcBullets"}

\* The combat pass of one Game.update (checkBulletHits, then checkNPCBulletHits)
\* from the states the game can be in when the pass starts: the player alive, on
\* foot or driving a vehicle of the manager; the maps pruned of dead NPCs and
\* dead vehicles by the manager updates of the same tick; healths at full or one
\* bullet from death; bullets of both lists in flight in the player's cell.
InitCombat ==
  /\ InitWeaponVars
  /\ maxNPCs = PassNPCs
  /\ maxVehicles = PassVehicles
  /\ pc = "checkBulletHits"
  /\ gameOver = FALSE
  /\ score = 0
  /\ \E ns \in SUBSET (0..(PassNPCs - 1)), vs \in SUBSET (0..(PassVehicles - 1)) :
       \E nh \in [ns -> {npcBulletDamage, npcMaxHealth}],
          vh \in [vs -> {npcBulletDamage, vehicleMaxHealth}],
          drv \in {NoVehicle} \cup vs,
          ph \in {npcBulletDamage, playerMaxHealth} :
         /\ player = [NewPlayer EXCEPT !.health = ph, !.currentVehicle = drv]
         /\ npcs = [n \in ns |-> [NewNPC(0) EXCEPT !.health = nh[n]]]
         /\ vehicleObjs = [v \in vs |->
                             [NewVehicle(0) EXCEPT
                                !.health = vh[v],
                                !.occupantId = IF v = drv THEN "player" ELSE "none"]]
         /\ vehicles = vs
         /\ colliders = {PlayerId} \cup {NpcKey(n) : n \in ns}
                           \cup {VehicleKey(v) : v \in vs}
  /\ npcIdCounter = PassNPCs
  /\ vehicleIdCounter = PassVehicles
  /\ \E np \in 0..PassBullets, nn \in 0..PassBullets :
       /\ np + nn <= PassBullets
       /\ playerBullets = [k \in 1..np |-> PistolBullet(0)]
       /\ npcBullets = [k \in 1..nn |-> NPCBullet(0)]
       /\ i = np
  /\ moved = AllMoved
  /\ hits = <<>>
  /\ deadActed = {}

NextCombat ==
  \/ CheckBulletHitsStep
  \/ CheckBulletHitsDone
  \/ CheckNPCBulletHitsStep
  \/ CheckNPCBulletHitsDone

SpecCombat == InitCombat /\ [][NextCombat]_vars

\* ------------------------------------------------------------ takeDamage runs
\* damages handed to takeDamage: nothing, the least crash damage, the bullets'
\* damages (10, 15, 20) and a heavy crash
Damages == {0, 1, 10, 15, 20, 30}

\* One Player, one NPC and one Vehicle as constructed; a run calls takeDamage on
\* one of them over and over.
InitDamage ==
  /\ InitWeaponVars
  /\ maxNPCs = 1
  /\ maxVehicles = 1
  /\ pc \in {"Player.takeDamage", "NPC.takeDamage", "Vehicle.takeDamage"}
  /\ i = 0
  /\ gameOver = FALSE
  /\ score = 0
  /\ player = NewPlayer
  /\ playerBullets = <<>>
  /\ npcs = [n \in {0} |-> NewNPC(0)]
  /\ npcIdCounter = 1
  /\ vehicleObjs = [v \in {0} |-> NewVehicle(0)]
  /\ vehicles = {0}
  /\ vehicleIdCounter = 1
  /\ npcBullets = <<>>
  /\ colliders = {PlayerId, NpcKey(0), VehicleKey(0)}
  /\ moved = {}
  /\ hits = <<>>
  /\ deadActed = {}

\* player.takeDamage(damage)
PlayerTakesDamage ==
  /\ pc = "Player.takeDamage"
  /\ \E damage \in Damages :
       /\ player' = PlayerTakeDamage(player, damage)
       /\ lastCall' = [op |-> pc, damage |-> damage, before |-> player]
  /\ UNCHANGED <<weapon, shouldFire, now, weapons, currentWeaponType,
                 weaponBeforeVehicle, unitVars, maxNPCs, maxVehicles, pc, i, gameOver,
                 score, playerBullets, npcs, npcIdCounter, vehicleObjs, vehicles,
                 vehicleIdCounter, npcBullets, colliders, moved, hits, deadActed>>

\* npc.takeDamage(damage, attackerPosition), or npc.takeDamage(damage)
NPCTakesDamage ==
  /\ pc = "NPC.takeDamage"
  /\ \E damage \in Damages, attackerPosition \in World \cup {NoTarget} :
       /\ npcs' = [npcs EXCEPT ![0] = NPCTakeDamage(npcs[0], damage, attackerPosition)]
       /\ lastCall' = [op |-> pc, damage |-> damage, before |-> npcs[0],
                       attackerPosition |-> attackerPosition]
  /\ UNCHANGED <<weapon, shouldFire, now, weapons, currentWeaponType,
                 weaponBeforeVehicle, unitVars, maxNPCs, maxVehicles, pc, i, gameOver,
                 score, player, playerBullets, npcIdCounter, vehicleObjs, vehicles,
                 vehicleIdCounter, npcBullets, colliders, moved, hits, deadActed>>

\* vehicle.takeDamage(damage)
VehicleTakesDamage ==
  /\ pc = "Vehicle.takeDamage"
  /\ \E damage \in Damages :
       /\ vehicleObjs' = [vehicleObjs EXCEPT ![0] = VehicleTakeDamage(vehicleObjs[0], damage)]
       /\ lastCall' = [op |-> pc, damage |-> damage, before |-> vehicleObjs[0]]
  /\ UNCHANGED <<weapon, shouldFire, now, weapons, currentWeaponType,
                 weaponBeforeVehicle, unitVars, maxNPCs, maxVehicles, pc, i, gameOver,
                 score, player, playerBullets, npcs, npcIdCounter, vehicles,
                 vehicleIdCounter, npcBullets, colliders, moved, hits, deadActed>>

NextDamage == PlayerTakesDamage \/ NPCTakesDamage \/ VehicleTakesDamage

SpecDamage == InitDamage /\ [][NextDamage]_vars

\* ------------------------------------------------------------ weapon runs
\* the weapon in the player's hand is the one Player.weapons holds for
\* currentWeaponType (Player.getCurrentWeapon)
InHand == weapons' = [weapons EXCEPT ![currentWeaponType] = weapon']

\* everything but the weapon, the clock and the player's bullets
gameVars ==
  <<currentWeaponType, weaponBeforeVehicle, maxNPCs, maxVehicles, pc, i, gameOver, score, player, npcs, npcIdCounter,
    vehicleObjs, vehicles, vehicleIdCounter, npcBullets, colliders, moved, hits,
    deadActed, unitVars>>

\* A weapon of any type in the player's hand, its magazine full, at its last round
\* or empty, with no reserve, one round or one magazine of reserve or the endless
\* reserve; a run
\* makes calls on the weapon and Player.fire calls while the clock advances.
InitWeapon ==
  /\ \E type \in WeaponTypes :
       \E ammo \in {0, 1, Config(type).magazineCapacity},
          reserve \in {0, 1, Config(type).magazineCapacity, Infinity} :
         /\ weapon = [NewWeapon(type, reserve) EXCEPT !.currentAmmo = ammo]
         /\ weapons = [t \in {type} |-> weapon]
         /\ currentWeaponType = type
         /\ weaponBeforeVehicle = type
  /\ InitUnitVars
  /\ shouldFire = FALSE
  /\ now = 0
  /\ lastCall = [op |-> "new"]
  /\ maxNPCs = 0
  /\ maxVehicles = 0
  /\ pc = "weapon"
  /\ i = 0
  /\ gameOver = FALSE
  /\ score = 0
  /\ player = NewPlayer
  /\ playerBullets = <<>>
  /\ npcs = EmptyMap
  /\ npcIdCounter = 0
  /\ vehicleObjs = EmptyMap
  /\ vehicles = {}
  /\ vehicleIdCounter = 0
  /\ npcBullets = <<>>
  /\ colliders = {PlayerId}
  /\ moved = {}
  /\ hits = <<>>
  /\ deadActed = {}

\* the clock advances by a tenth of a second
Tick ==
  /\ pc = "weapon"
  /\ now < MaxTime
  /\ now' = now + 1
  /\ lastCall' = [op |-> "tick"]
  /\ UNCHANGED <<weapon, weapons, shouldFire, playerBullets, gameVars>>

\* weapon.fire(currentTime)
WeaponFire ==
  /\ pc = "weapon"
  /\ weapon' = Fire(weapon, now)
  /\ lastCall' = [op |-> "Weapon.fire", before |-> weapon,
                  result |-> CanFire(weapon, now)]
  /\ InHand
  /\ UNCHANGED <<shouldFire, now, playerBullets, gameVars>>

\* weapon.startReload(currentTime)
WeaponStartReload ==
  /\ pc = "weapon"
  /\ weapon' = StartReload(weapon, now)
  /\ lastCall' = [op |-> "Weapon.startReload", before |-> weapon]
  /\ InHand
  /\ UNCHANGED <<shouldFire, now, playerBullets, gameVars>>

\* weapon.updateReload(currentTime), called by every Player.update
WeaponUpdateReload ==
  /\ pc = "weapon"
  /\ weapon' = UpdateReload(weapon, now)
  /\ lastCall' = [op |-> "Weapon.updateReload", before |-> weapon]
  /\ InHand
  /\ UNCHANGED <<shouldFire, now, playerBullets, gameVars>>

\* weapon.addReserveAmmo(amount): the magazine Player.pickupWeapon adds, or nothing
WeaponAddReserveAmmo ==
  /\ pc = "weapon"
  /\ \/ weapon.reserveAmmo = Infinity
     \/ weapon.reserveAmmo \div Config(weapon.type).magazineCapacity < MaxMagazines
  /\ \E amount \in {0, Config(weapon.type).magazineCapacity} :
       /\ weapon' = AddReserveAmmo(weapon, amount)
       /\ lastCall' = [op |-> "Weapon.addReserveAmmo", before |-> weapon,
                       amount |-> amount]
  /\ InHand
  /\ UNCHANGED <<shouldFire, now, playerBullets, gameVars>>

\* weapon.setMouseDown(isDown)
WeaponSetMouseDown ==
  /\ pc = "weapon"
  /\ \E isDown \in BOOLEAN : weapon' = SetMouseDown(weapon, isDown)
  /\ lastCall' = [op |-> "Weapon.setMouseDown", before |-> weapon]
  /\ InHand
  /\ UNCHANGED <<shouldFire, now, playerBullets, gameVars>>

\* player.fire(currentTime)
PlayerFires ==
  /\ pc = "weapon"
  /\ \E enemy \in BOOLEAN :
       LET o == PlayerFireOutcome(weapon, shouldFire, enemy, now) IN
       /\ Len(playerBullets) + o.bullets <= MaxFlight
       /\ weapon' = o.weapon
       /\ shouldFire' = o.shouldFire
       /\ playerBullets' = playerBullets
                             \o [k \in 1..o.bullets |->
                                   WeaponBullet(weapon, player.position)]
       /\ lastCall' = [op |-> "Player.fire", before |-> weapon,
                       bullets |-> Len(playerBullets), enemy |-> enemy]
  /\ InHand
  /\ UNCHANGED <<now, gameVars>>

\* BulletManager.update once every bullet in flight is out of range
BulletsExpire ==
  /\ pc = "weapon"
  /\ playerBullets # <<>>
  /\ playerBullets' = <<>>
  /\ lastCall' = [op |-> "BulletManager.update"]
  /\ UNCHANGED <<weapon, weapons, shouldFire, now, gameVars>>

NextWeapon ==
  \/ Tick
  \/ WeaponFire
  \/ WeaponStartReload
  \/ WeaponUpdateReload
  \/ WeaponAddReserveAmmo
  \/ WeaponSetMouseDown
  \/ PlayerFires
  \/ BulletsExpire

SpecWeapon == InitWeapon /\ [][NextWeapon]_vars

\* ------------------------------------------------------------ arsenal runs
\* Player.switchWeapon without the test that the weapon is owned
SwitchWeapon_NoHasTest(current, owned, inVehicle, weaponType) ==
  IF inVehicle /\ weaponType # "pistol" THEN current ELSE weaponType

\* Player.switchWeapon without the test for the vehicle
SwitchWeapon_InVehicle(current, owned, inVehicle, weaponType) ==
  IF weaponType \in owned THEN weaponType ELSE current

\* Player.switchWeapon: currentWeaponType afterwards
SwitchWeapon(current, owned, inVehicle, weaponType) ==
  IF inVehicle /\ weaponType # "pistol" THEN current
  ELSE IF weaponType \in owned THEN weaponType
  ELSE current

\* Player.pickupWeapon: Player.weapons afterwards
PickupWeapon(ws, weaponType) ==
  LET capacity == Config(weaponType).magazineCapacity IN
  IF weaponType \in DOMAIN ws
  THEN [ws EXCEPT ![weaponType] = AddReserveAmmo(ws[weaponType], capacity)]
  ELSE [t \in DOMAIN ws \cup {weaponType} |->
          IF t = weaponType THEN AddReserveAmmo(NewWeapon(weaponType, 0), capacity)
          ELSE ws[t]]

\* the weapon restored by Player.exitVehicle
WeaponAfterVehicle(current, owned, before) ==
  IF before \in owned THEN before ELSE current

\* The player as constructed, with vehicles parked next to the player; a run
\* switches weapons, picks weapons up and enters and leaves vehicles.
InitArsenal ==
  /\ InitWeaponVars
  /\ maxNPCs = 0
  /\ maxVehicles = MaxLiveVehicles
  /\ pc = "arsenal"
  /\ i = 0
  /\ gameOver = FALSE
  /\ score = 0
  /\ player = NewPlayer
  /\ playerBullets = <<>>
  /\ npcs = EmptyMap
  /\ npcIdCounter = 0
  /\ vehicleObjs = [v \in 0..(MaxLiveVehicles - 1) |-> NewVehicle(0)]
  /\ vehicles = 0..(MaxLiveVehicles - 1)
  /\ vehicleIdCounter = MaxLiveVehicles
  /\ npcBullets = <<>>
  /\ colliders = {PlayerId} \cup {VehicleKey(v) : v \in 0..(MaxLiveVehicles - 1)}
  /\ moved = {}
  /\ hits = <<>>
  /\ deadActed = {}

\* what the arsenal runs leave alone
arsenalRest ==
  <<shouldFire, now, maxNPCs, maxVehicles, pc, i, gameOver, score, playerBullets,
    npcs, npcIdCounter, vehicles, vehicleIdCounter, npcBullets, colliders, moved,
    hits, deadActed, unitVars>>

\* player.switchWeapon(weaponType): keys 1, 2 and 3 of Game.update
PlayerSwitchesWeapon ==
  /\ pc = "arsenal"
  /\ \E weaponType \in WeaponTypes :
       /\ currentWeaponType' =
            SwitchWeapon(currentWeaponType, DOMAIN weapons,
                         player.currentVehicle # NoVehicle, weaponType)
       /\ lastCall' = [op |-> "Player.switchWeapon", weaponType |-> weaponType,
                       before |-> currentWeaponType, owned |-> DOMAIN weapons]
  /\ weapon' = IF currentWeaponType' \in DOMAIN weapons
               THEN weapons[currentWeaponType'] ELSE weapon
  /\ UNCHANGED <<weapons, weaponBeforeVehicle, player, vehicleObjs, arsenalRest>>

\* player.pickupWeapon(weaponType): Game.checkItemPickup
PlayerPicksUpWeapon ==
  /\ pc = "arsenal"
  /\ \E weaponType \in WeaponTypes :
       /\ IF weaponType \notin DOMAIN weapons THEN TRUE
          ELSE IF weapons[weaponType].reserveAmmo = Infinity THEN TRUE
          ELSE weapons[weaponType].reserveAmmo
                 \div Config(weaponType).magazineCapacity < MaxMagazines
       /\ weapons' = PickupWeapon(weapons, weaponType)
       /\ lastCall' = [op |-> "Player.pickupWeapon", weaponType |-> weaponType,
                       before |-> currentWeaponType, owned |-> DOMAIN weapons]
  /\ weapon' = weapons'[currentWeaponType]
  /\ UNCHANGED <<currentWeaponType, weaponBeforeVehicle, player, vehicleObjs,
                 arsenalRest>>

\* player.enterVehicle(vehicle), as Game.handleVehicleInteraction calls it
PlayerEntersVehicle ==
  /\ pc = "arsenal"
  /\ player.currentVehicle = NoVehicle
  /\ \E v \in vehicles : PlayerEnterVehicle(v)
  /\ weaponBeforeVehicle' = currentWeaponType
  /\ currentWeaponType' = "pistol"
  /\ weapon' = weapons["pistol"]
  /\ lastCall' = [op |-> "Player.enterVehicle", weaponType |-> "pistol",
                  before |-> currentWeaponType, owned |-> DOMAIN weapons]
  /\ UNCHANGED <<weapons, arsenalRest>>

\* player.exitVehicle()
PlayerExitsVehicle ==
  /\ pc = "arsenal"
  /\ player.currentVehicle # NoVehicle
  /\ PlayerExitVehicle
  /\ currentWeaponType' =
       WeaponAfterVehicle(currentWeaponType, DOMAIN weapons, weaponBeforeVehicle)
  /\ weapon' = weapons[currentWeaponType']
  /\ lastCall' = [op |-> "Player.exitVehicle", weaponType |-> weaponBeforeVehicle,
                  before |-> currentWeaponType, owned |-> DOMAIN weapons]
  /\ UNCHANGED <<weapons, weaponBeforeVehicle, arsenalRest>>

NextArsenal ==
  \/ PlayerSwitchesWeapon
  \/ PlayerPicksUpWeapon
  \/ PlayerEntersVehicle
  \/ PlayerExitsVehicle

SpecArsenal == InitArsenal /\ [][NextArsenal]_vars

\* ------------------------------------------------------------ NPC runs
\* new NPC(id, position) without patrol points: Idle, no target
IdleNPC(p) ==
  [NewNPC(p) EXCEPT !.behavior = "idle", !.targetPosition = NoTarget,
                    !.patrolPoint = NoTarget]

\* One NPC as constructed, with the route NPCManager gives it or without patrol
\* points, and the player somewhere; a run updates the NPC, damages it and moves
\* the player.
InitNPC ==
  /\ InitWeaponVars
  /\ maxNPCs = 1
  /\ maxVehicles = 0
  /\ pc = "NPC"
  /\ i = 0
  /\ gameOver = FALSE
  /\ score = 0
  /\ player = NewPlayer
  /\ playerBullets = <<>>
  /\ \E p \in World : npcs \in {[n \in {0} |-> NewNPC(p)], [n \in {0} |-> IdleNPC(p)]}
  /\ npcIdCounter = 1
  /\ vehicleObjs = EmptyMap
  /\ vehicles = {}
  /\ vehicleIdCounter = 0
  /\ npcBullets = <<>>
  /\ colliders = {PlayerId, NpcKey(0)}
  /\ moved = {}
  /\ hits = <<>>
  /\ deadActed = {}

\* what the NPC runs leave alone
npcRest ==
  <<weapon, shouldFire, now, weapons, currentWeaponType, weaponBeforeVehicle,
    maxNPCs, maxVehicles, pc, i, gameOver, score, playerBullets, npcIdCounter,
    vehicleObjs, vehicles, vehicleIdCounter, npcBullets, colliders, moved, hits,
    deadActed, unitVars>>

\* npc.update(deltaTime, playerPosition, currentTime); afterDamage tells that the
\* call before this one was a takeDamage on the NPC alive
NPCUpdates ==
  /\ pc = "NPC"
  /\ \E in \in NPCInput :
       /\ npcs' = [npcs EXCEPT ![0] = NPCUpdate(npcs[0], in, player.position)]
       /\ lastCall' =
            [op |-> "NPC.update", before |-> npcs[0],
             seen |-> NPCInVision(npcs[0], in, player.position),
             timeout |-> in.timeout,
             playerPosition |-> player.position,
             afterDamage |-> IF lastCall.op = "NPC.takeDamage"
                             THEN ~lastCall.before.isDead ELSE FALSE]
  /\ UNCHANGED <<player, npcRest>>

\* npc.takeDamage(damage, attackerPosition) with an attacker, as
\* Game.checkBulletHits calls it
NPCDamaged ==
  /\ pc = "NPC"
  /\ \E damage \in Damages, attackerPosition \in World :
       /\ npcs' = [npcs EXCEPT ![0] = NPCTakeDamage(npcs[0], damage, attackerPosition)]
       /\ lastCall' = [op |-> "NPC.takeDamage", damage |-> damage,
                       before |-> npcs[0], attackerPosition |-> attackerPosition]
  /\ UNCHANGED <<player, npcRest>>

\* the player walks to another cell
PlayerWalks ==
  /\ pc = "NPC"
  /\ \E q \in Neighbors(player.position) \ {player.position} :
       player' = [player EXCEPT !.position = q]
  /\ lastCall' = [op |-> "Player.update"]
  /\ UNCHANGED <<npcs, npcRest>>

NextNPC == NPCUpdates \/ NPCDamaged \/ PlayerWalks

SpecNPC == InitNPC /\ [][NextNPC]_vars

\* ------------------------------------------------------------ shoot callback runs
\* A new NPCManager whose createNPC is not yet replaced, and the clock at 0; a
\* run replaces createNPC (Game.setupNPCShootCallback), lets the manager create
\* and remove NPCs, updates them as the clock advances and moves the player.
InitShoot ==
  /\ createNPCWrapped = FALSE
  /\ InitInput
  /\ lastReloadTime = 0
  /\ onShoot = {}
  /\ lastShotTime = EmptyMap
  /\ registry = EmptyMap
  /\ weapon = NewWeapon("pistol", Infinity)
  /\ shouldFire = FALSE
  /\ now = 0
  /\ lastCall = [op |-> "new"]
  /\ weapons = [t \in {"pistol"} |-> NewWeapon("pistol", Infinity)]
  /\ currentWeaponType = "pistol"
  /\ weaponBeforeVehicle = "pistol"
  /\ maxNPCs = MaxLiveNPCs
  /\ maxVehicles = 0
  /\ pc = "shoot"
  /\ i = 0
  /\ gameOver = FALSE
  /\ score = 0
  /\ player = NewPlayer
  /\ playerBullets = <<>>
  /\ npcs = EmptyMap
  /\ npcIdCounter = 0
  /\ vehicleObjs = EmptyMap
  /\ vehicles = {}
  /\ vehicleIdCounter = 0
  /\ npcBullets = <<>>
  /\ colliders = {PlayerId}
  /\ moved = {}
  /\ hits = <<>>
  /\ deadActed = {}

\* what the shoot callback runs leave alone
shootRest ==
  <<weapon, shouldFire, weapons, currentWeaponType, weaponBeforeVehicle, maxNPCs,
    maxVehicles, pc, i, gameOver, score, playerBullets, vehicleObjs, vehicles,
    vehicleIdCounter, moved, hits, deadActed, registry>>

\* Game.setupNPCShootCallback
SetupNPCShootCallback ==
  /\ pc = "shoot"
  /\ ~createNPCWrapped
  /\ createNPCWrapped' = TRUE
  /\ lastCall' = [op |-> "Game.setupNPCShootCallback"]
  /\ UNCHANGED <<now, player, npcs, npcIdCounter, npcBullets, colliders, onShoot,
                 lastShotTime, keys, keysJustPressed, lastReloadTime, shootRest>>

\* NPCManager.spawnNPCsAroundPlayer: this.createNPC(npcId, position), then
\* setPatrolPoints
ManagerCreatesNPC ==
  /\ pc = "shoot"
  /\ Cardinality(DOMAIN npcs) < maxNPCs
  /\ npcIdCounter < MaxShooterId
  /\ \E sp \in SpawnCells(player.position) :
       npcs' = [n \in DOMAIN npcs \cup {npcIdCounter} |->
                  IF n = npcIdCounter THEN NewNPC(sp) ELSE npcs[n]]
  /\ npcIdCounter' = npcIdCounter + 1
  /\ onShoot' = IF createNPCWrapped THEN onShoot \cup {npcIdCounter} ELSE onShoot
  /\ lastShotTime' = [n \in DOMAIN npcs \cup {npcIdCounter} |->
                        IF n = npcIdCounter THEN 0 ELSE lastShotTime[n]]
  /\ colliders' = colliders \cup {NpcKey(npcIdCounter)}
  /\ lastCall' = [op |-> "NPCManager.createNPC", id |-> npcIdCounter,
                  wrapped |-> createNPCWrapped]
  /\ UNCHANGED <<now, player, npcBullets, createNPCWrapped, keys, keysJustPressed,
                 lastReloadTime, shootRest>>

\* NPCManager.removeNPC(id): the NPC leaves the map (its collider stays)
ManagerRemovesNPC ==
  /\ pc = "shoot"
  /\ \E id \in DOMAIN npcs :
       /\ npcs' = RemoveNPCs(npcs, {id})
       /\ lastShotTime' = [n \in DOMAIN npcs \ {id} |-> lastShotTime[n]]
       /\ onShoot' = onShoot \ {id}
       /\ lastCall' = [op |-> "NPCManager.removeNPC", id |-> id]
  /\ UNCHANGED <<now, player, npcIdCounter, npcBullets, colliders,
                 createNPCWrapped, keys, keysJustPressed, lastReloadTime, shootRest>>

\* One frame: the clock advances by dt and npc.update(deltaTime, playerPosition,
\* currentTime) runs on the NPC id; tryShoot is reached when the player is in
\* vision.  The call is recorded with what it read.
NPCUpdatesAt ==
  /\ pc = "shoot"
  /\ \E id \in DOMAIN npcs, dt \in 0..MaxFrame, in \in NPCInput :
       LET n == npcs[id]
           currentTime == now + dt
           seen == NPCInVision(n, in, player.position)
           shot == seen /\ TryShoot(id \in onShoot, lastShotTime[id], currentTime)
       IN /\ currentTime <= MaxTime
          /\ in.cooled = (currentTime - lastShotTime[id] >= shotCooldown)
          /\ shot => Len(npcBullets) < MaxNpcBullets
          /\ now' = currentTime
          /\ npcs' = [npcs EXCEPT ![id] = NPCUpdate(n, in, player.position)]
          /\ lastShotTime' = IF shot
                             THEN [lastShotTime EXCEPT ![id] = currentTime]
                             ELSE lastShotTime
          /\ npcBullets' = IF shot
                           THEN Append(npcBullets, OnShoot(id, n.position))
                           ELSE npcBullets
          /\ lastCall' =
               [op |-> "NPC.update", id |-> id, seen |-> seen, shot |-> shot,
                behavior |-> NPCPerceive(n, seen, player.position).behavior,
                currentTime |-> currentTime, lastShotTime |-> lastShotTime[id],
                position |-> n.position, bullets |-> Len(npcBullets)]
  /\ UNCHANGED <<player, npcIdCounter, colliders, createNPCWrapped, keys,
                 keysJustPressed, lastReloadTime, onShoot,
                 shootRest>>

\* npcBulletManager.update once every bullet in flight is out of range
NPCBulletsExpire ==
  /\ pc = "shoot"
  /\ npcBullets # <<>>
  /\ npcBullets' = <<>>
  /\ lastCall' = [op |-> "BulletManager.update"]
  /\ UNCHANGED <<now, player, npcs, npcIdCounter, colliders, unitVars, shootRest>>

\* the player walks to another cell
TargetWalks ==
  /\ pc = "shoot"
  /\ \E q \in Neighbors(player.position) \ {player.position} :
       player' = [player EXCEPT !.position = q]
  /\ lastCall' = [op |-> "Player.update"]
  /\ UNCHANGED <<now, npcs, npcIdCounter, npcBullets, colliders, unitVars,
                 shootRest>>

NextShoot ==
  \/ SetupNPCShootCallback
  \/ ManagerCreatesNPC
  \/ ManagerRemovesNPC
  \/ NPCUpdatesAt
  \/ NPCBulletsExpire
  \/ TargetWalks

SpecShoot == InitShoot /\ [][NextShoot]_vars

\* ------------------------------------------------------------ CollisionSystem
\* Points of the plane are pairs <<x, y>> of whole pixels.
BuildingKey(b) == <<"building", b>>

Sq(x) == x * x

\* Vector2.distance, squared
Distance2(a, b) == Sq(a[1] - b[1]) + Sq(a[2] - b[2])

\* a Collider of type 'circle'
Circle(position, radius) ==
  [position |-> position, radius |-> radius, type |-> "circle",
   width |-> 0, height |-> 0]

\* a Collider of type 'rect' (a building: radius 0)
Rect(position, width, height) ==
  [position |-> position, radius |-> 0, type |-> "rect",
   width |-> width, height |-> height]

\* CollisionSystem.circleToCircle that counts touching circles as colliding
CircleToCircle_Touching(a, b) ==
  Distance2(a.position, b.position) <= Sq(a.radius + b.radius)

\* CollisionSystem.circleToCircle
CircleToCircle(a, b) ==
  Distance2(a.position, b.position) < Sq(a.radius + b.radius)

\* CollisionSystem.circleToRect
CircleToRect(circle, rect) ==
  LET rectLeft == rect.position[1]
      rectRight == rect.position[1] + rect.width
      rectTop == rect.position[2]
      rectBottom == rect.position[2] + rect.height
      closestX == Max(rectLeft, Min(circle.position[1], rectRight))
      closestY == Max(rectTop, Min(circle.position[2], rectBottom))
  IN Distance2(circle.position, <<closestX, closestY>>) < Sq(circle.radius)

\* CollisionSystem.rectToRect
RectToRect(a, b) ==
  /\ a.position[1] < b.position[1] + b.width
  /\ a.position[1] + a.width > b.position[1]
  /\ a.position[2] < b.position[2] + b.height
  /\ a.position[2] + a.height > b.position[2]

\* CollisionSystem.isColliding that hands a rect and a circle to circleToRect in
\* the order it got them
IsColliding_NoSwap(reg, id1, id2) ==
  IF id1 \notin DOMAIN reg \/ id2 \notin DOMAIN reg THEN FALSE
  ELSE LET collider1 == reg[id1]
           collider2 == reg[id2]
       IN IF collider1.type = "circle" /\ collider2.type = "circle"
          THEN CircleToCircle(collider1, collider2)
          ELSE IF collider1.type = "circle" /\ collider2.type = "rect"
          THEN CircleToRect(collider1, collider2)
          ELSE IF collider1.type = "rect" /\ collider2.type = "circle"
          THEN CircleToRect(collider1, collider2)
          ELSE RectToRect(collider1, collider2)

\* CollisionSystem.isColliding
IsColliding(reg, id1, id2) ==
  IF id1 \notin DOMAIN reg \/ id2 \notin DOMAIN reg THEN FALSE
  ELSE LET collider1 == reg[id1]
           collider2 == reg[id2]
       IN IF collider1.type = "circle" /\ collider2.type = "circle"
          THEN CircleToCircle(collider1, collider2)
          ELSE IF collider1.type = "circle" /\ collider2.type = "rect"
          THEN CircleToRect(collider1, collider2)
          ELSE IF collider1.type = "rect" /\ collider2.type = "circle"
          THEN CircleToRect(collider2, collider1)
          ELSE RectToRect(collider1, collider2)

\* CollisionSystem.getCollisions (the ids of the list it returns)
GetCollisions(reg, id) ==
  {otherId \in DOMAIN reg : otherId # id /\ IsColliding(reg, id, otherId)}

\* CollisionSystem.pointInCollider
PointInCollider(reg, point, id) ==
  IF id \notin DOMAIN reg THEN FALSE
  ELSE LET collider == reg[id] IN
       IF collider.type = "circle"
       THEN Distance2(point, collider.position) < Sq(collider.radius)
       ELSE /\ point[1] >= collider.position[1]
            /\ point[1] <= collider.position[1] + collider.width
            /\ point[2] >= collider.position[2]
            /\ point[2] <= collider.position[2] + collider.height

\* the null a normal computation returns, and a vector it returns (its direction;
\* the code scales it to length 1)
NullNormal == [null |-> TRUE, x |-> 0, y |-> 0]
Normal(x, y) ==
  IF x = 0 /\ y = 0 THEN [null |-> FALSE, x |-> 1, y |-> 0]
  ELSE [null |-> FALSE, x |-> x, y |-> y]

\* CollisionSystem.getCollisionNormal
GetCollisionNormal(reg, id1, id2) ==
  IF id1 \notin DOMAIN reg \/ id2 \notin DOMAIN reg THEN NullNormal
  ELSE Normal(reg[id2].position[1] - reg[id1].position[1],
              reg[id2].position[2] - reg[id1].position[2])

\* CollisionSystem.getCollisionNormalCircleRect
GetCollisionNormalCircleRect(reg, circleId, rectId) ==
  IF circleId \notin DOMAIN reg \/ rectId \notin DOMAIN reg THEN NullNormal
  ELSE LET circle == reg[circleId]
           rect == reg[rectId]
           closestX == Max(rect.position[1],
                           Min(circle.position[1], rect.position[1] + rect.width))
           closestY == Max(rect.position[2],
                           Min(circle.position[2], rect.position[2] + rect.height))
       IN Normal(circle.position[1] - closestX, circle.position[2] - closestY)

\* CollisionSystem.updatePosition that registers a collider for an id it does
\* not know
UpdatePosition_Registers(reg, id, position) ==
  [k \in DOMAIN reg \cup {id} |->
     IF k = id THEN Circle(position, 0) ELSE reg[k]]

\* CollisionSystem.updatePosition
UpdatePosition(reg, id, position) ==
  IF id \in DOMAIN reg THEN [reg EXCEPT ![id].position = position] ELSE reg

\* CollisionSystem.unregister
Unregister(reg, id) == [k \in DOMAIN reg \ {id} |-> reg[k]]

\* the move of Player.update and of NPC.update that commits the Y-only position
\* without looking at its collisions
Move_NoThirdTest(reg, id, position, d) ==
  LET newPosition == <<position[1] + d[1], position[2] + d[2]>>
      r1 == UpdatePosition(reg, id, newPosition)
  IN IF GetCollisions(r1, id) # {}
     THEN LET testX == <<position[1] + d[1], position[2]>>
              r2 == UpdatePosition(r1, id, testX)
          IN IF GetCollisions(r2, id) = {}
             THEN [position |-> testX, registry |-> r2]
             ELSE LET testY == <<position[1], position[2] + d[2]>>
                      r3 == UpdatePosition(r2, id, testY)
                  IN [position |-> testY, registry |-> r3]
     ELSE [position |-> newPosition, registry |-> r1]

\* the move of Player.update and of NPC.update that tries the Y-only position
\* before the X-only position
Move_YFirst(reg, id, position, d) ==
  LET newPosition == <<position[1] + d[1], position[2] + d[2]>>
      r1 == UpdatePosition(reg, id, newPosition)
  IN IF GetCollisions(r1, id) # {}
     THEN LET testY == <<position[1], position[2] + d[2]>>
              r2 == UpdatePosition(r1, id, testY)
          IN IF GetCollisions(r2, id) = {}
             THEN [position |-> testY, registry |-> r2]
             ELSE LET testX == <<position[1] + d[1], position[2]>>
                      r3 == UpdatePosition(r2, id, testX)
                  IN IF GetCollisions(r3, id) = {}
                     THEN [position |-> testX, registry |-> r3]
                     ELSE [position |-> position,
                           registry |-> UpdatePosition(r3, id, position)]
     ELSE [position |-> newPosition, registry |-> r1]

\* The move of Player.update (on foot) and of NPC.update, d being velocity times
\* deltaTime: the full displacement, else X only, else Y only, else none.  The
\* result is this.position and the registry afterwards.
Move(reg, id, position, d) ==
  LET newPosition == <<position[1] + d[1], position[2] + d[2]>>
      r1 == UpdatePosition(reg, id, newPosition)
  IN IF GetCollisions(r1, id) # {}
     THEN LET testX == <<position[1] + d[1], position[2]>>
              r2 == UpdatePosition(r1, id, testX)
          IN IF GetCollisions(r2, id) = {}
             THEN [position |-> testX, registry |-> r2]
             ELSE LET testY == <<position[1], position[2] + d[2]>>
                      r3 == UpdatePosition(r2, id, testY)
                  IN IF GetCollisions(r3, id) = {}
                     THEN [position |-> testY, registry |-> r3]
                     ELSE [position |-> position,
                           registry |-> UpdatePosition(r3, id, position)]
     ELSE [position |-> newPosition, registry |-> r1]

\* ------------------------------------------------------------ collision runs
\* where an NPC is spawned in a run: away from everything, next to the wall, next
\* to the top building, inside the wall
NpcSpawns ==
  {<<0, 0>>, <<5 * MaxGrid - 5, 5>>, <<5, 5 * MaxGrid - 5>>, <<5 * MaxGrid, 5>>,
   <<playerRadius + npcRadius, 0>>}

\* where a bullet is when it is tested against an NPC: inside the NPC spawned at
\* the origin, touching it, and away from it
BulletPoints ==
  {<<5, 0>>, <<pistolBulletSize + npcRadius, 0>>, <<0, pistolBulletSize + npcRadius + 1>>}

\* the point handed to pointInCollider and to updatePosition: on the wall's edge
QueryPoints == {<<5 * MaxGrid, 5>>}

\* the part of the plane a run stays in, on a grid of 5 pixels
Grid == {<<5 * x, 5 * y>> : x \in 0..MaxGrid, y \in 0..MaxGrid}

\* displacements of one frame
Steps == {<<5 * x, 5 * y>> : x \in -1..1, y \in -1..1}

\* a wall along the right edge of the grid, and what can lie along its top edge:
\* a building that overlaps the wall or one that touches it
Wall == Rect(<<5 * MaxGrid, 0>>, 10, 5 * MaxGrid)
Top == {Rect(<<0, 5 * MaxGrid + 2>>, 5 * MaxGrid + 5, 5),
        Rect(<<0, 5 * MaxGrid>>, 5 * MaxGrid, 5)}

\* ids a run asks about: the player, an NPC, the two buildings and an id that
\* is never registered
Ids == {PlayerId, NpcKey(0), BuildingKey(0), BuildingKey(1), NpcKey(1)}

\* The player registered where it stands (Player.setCollisionSystem), the wall,
\* possibly a second building and possibly an NPC registered where it was
\* spawned (NPC.setCollisionSystem), which can be anywhere.
InitCollision ==
  /\ createNPCWrapped = TRUE
  /\ InitInput
  /\ lastReloadTime = 0
  /\ onShoot = {}
  /\ lastShotTime = EmptyMap
  /\ weapon = NewWeapon("pistol", Infinity)
  /\ shouldFire = FALSE
  /\ now = 0
  /\ lastCall = [op |-> "new"]
  /\ weapons = [t \in {"pistol"} |-> NewWeapon("pistol", Infinity)]
  /\ currentWeaponType = "pistol"
  /\ weaponBeforeVehicle = "pistol"
  /\ maxNPCs = 1
  /\ maxVehicles = 0
  /\ pc = "collision"
  /\ i = 0
  /\ gameOver = FALSE
  /\ score = 0
  /\ playerBullets = <<>>
  /\ npcIdCounter = 1
  /\ vehicleObjs = EmptyMap
  /\ vehicles = {}
  /\ vehicleIdCounter = 0
  /\ npcBullets = <<>>
  /\ moved = {}
  /\ hits = <<>>
  /\ deadActed = {}
  /\ \E pp \in Grid, tops \in SUBSET Top, ns \in SUBSET NpcSpawns :
       /\ Cardinality(tops) <= 1
       /\ Cardinality(ns) <= 1
       /\ player = [NewPlayer EXCEPT !.position = pp]
       /\ npcs = IF ns = {} THEN EmptyMap
                 ELSE [n \in {0} |->
                         [NewNPC(0) EXCEPT !.position = CHOOSE q \in ns : TRUE]]
       /\ registry =
            [k \in {PlayerId, BuildingKey(0)}
                    \cup {BuildingKey(1) : t \in tops} \cup {NpcKey(0) : q \in ns} |->
               IF k = PlayerId THEN Circle(pp, playerRadius)
               ELSE IF k = BuildingKey(0) THEN Wall
               ELSE IF k = BuildingKey(1) THEN CHOOSE t \in tops : TRUE
               ELSE Circle(CHOOSE q \in ns : TRUE, npcRadius)]
  /\ colliders = DOMAIN registry

\* what the collision runs leave alone
collisionRest ==
  <<weapon, shouldFire, now, weapons, currentWeaponType, weaponBeforeVehicle,
    maxNPCs, maxVehicles, pc, i, gameOver, score, playerBullets, npcIdCounter,
    vehicleObjs, vehicles, vehicleIdCounter, npcBullets, moved, hits, deadActed,
    createNPCWrapped, onShoot, lastShotTime, keys, keysJustPressed, lastReloadTime>>

\* the player on foot moves: Player.update with velocity * deltaTime = d
PlayerMoves ==
  /\ pc = "collision"
  /\ \E d \in Steps :
       LET m == Move(registry, PlayerId, player.position, d) IN
       /\ <<player.position[1] + d[1], player.position[2] + d[2]>> \in Grid
       /\ player' = [player EXCEPT !.position = m.position]
       /\ registry' = m.registry
       /\ lastCall' =
            [op |-> "Player.update", id |-> PlayerId,
             collisions |-> GetCollisions(registry, PlayerId),
             blocked |-> m.position # <<player.position[1] + d[1],
                                        player.position[2] + d[2]>>]
  /\ UNCHANGED <<npcs, colliders, collisionRest>>

\* an NPC moves: NPC.update with velocity * deltaTime = d
NPCMoves ==
  /\ pc = "collision"
  /\ \E n \in DOMAIN npcs, d \in Steps :
       LET m == Move(registry, NpcKey(n), npcs[n].position, d) IN
       /\ <<npcs[n].position[1] + d[1], npcs[n].position[2] + d[2]>> \in Grid
       /\ npcs' = [npcs EXCEPT ![n].position = m.position]
       /\ registry' = m.registry
       /\ lastCall' =
            [op |-> "NPC.update", id |-> NpcKey(n),
             collisions |-> GetCollisions(registry, NpcKey(n)),
             blocked |-> m.position # <<npcs[n].position[1] + d[1],
                                        npcs[n].position[2] + d[2]>>]
  /\ UNCHANGED <<player, colliders, collisionRest>>

\* collisionSystem.unregister(id) for an id that is not registered
CollisionUnregisters ==
  /\ pc = "collision"
  /\ \E id \in Ids \ DOMAIN registry :
       /\ registry' = Unregister(registry, id)
       /\ lastCall' = [op |-> "CollisionSystem.unregister", id |-> id,
                       before |-> registry]
  /\ colliders' = DOMAIN registry'
  /\ UNCHANGED <<player, npcs, collisionRest>>

\* collisionSystem.updatePosition(id, position) for an id that is not registered
CollisionUpdatesPosition ==
  /\ pc = "collision"
  /\ \E id \in Ids \ DOMAIN registry, position \in QueryPoints :
       /\ registry' = UpdatePosition(registry, id, position)
       /\ lastCall' = [op |-> "CollisionSystem.updatePosition", id |-> id,
                       before |-> registry]
  /\ colliders' = DOMAIN registry'
  /\ UNCHANGED <<player, npcs, collisionRest>>

\* the hit test of Game.checkBulletHits on a bullet and an NPC:
\* bulletPos.distance(npcPos) < bulletRadius + npcRadius
BulletHits(bulletPos, bulletRadius, targetPos, targetRadius) ==
  Distance2(bulletPos, targetPos) < Sq(bulletRadius + targetRadius)

\* a pistol bullet of the player is tested against an NPC
BulletIsTested ==
  /\ pc = "collision"
  /\ \E n \in DOMAIN npcs, bulletPos \in BulletPoints :
       lastCall' =
         [op |-> "Game.checkBulletHits", id |-> NpcKey(n), bulletPos |-> bulletPos,
          hit |-> BulletHits(bulletPos, pistolBulletSize, npcs[n].position,
                             npcRadius)]
  /\ UNCHANGED <<player, npcs, registry, colliders, collisionRest>>

\* the queries of the CollisionSystem on a pair of ids and a point
CollisionQueries ==
  /\ pc = "collision"
  /\ \E id1 \in Ids, id2 \in Ids, point \in QueryPoints :
       lastCall' =
         [op |-> "CollisionSystem.query", id1 |-> id1, id2 |-> id2,
          isColliding |-> IsColliding(registry, id1, id2),
          swapped |-> IsColliding(registry, id2, id1),
          getCollisions |-> GetCollisions(registry, id1),
          pointInCollider |-> PointInCollider(registry, point, id1),
          normal |-> GetCollisionNormal(registry, id1, id2),
          normalCircleRect |-> GetCollisionNormalCircleRect(registry, id1, id2)]
  /\ UNCHANGED <<player, npcs, registry, colliders, collisionRest>>

NextCollision ==
  \/ PlayerMoves
  \/ NPCMoves
  \/ CollisionUnregisters
  \/ CollisionUpdatesPosition
  \/ CollisionQueries
  \/ BulletIsTested

SpecCollision == InitCollision /\ [][NextCollision]_vars

\* ------------------------------------------------------------ slide runs
\* One update of a walker from any state a collision run starts in, with the
\* velocity the update moves it by (for the player the velocity after the
\* smoothing, for an NPC the one its behaviour set), in pixels per second, and
\* deltaTime in tenths of a second.
SlideVelocities == {<<50 * x, 50 * y>> : x \in -2..2, y \in -2..2}
SlideFrames == {1}

\* velocity * deltaTime, in whole pixels
SlideStep(velocity, deltaTime) ==
  <<(velocity[1] * deltaTime) \div 10, (velocity[2] * deltaTime) \div 10>>

\* the position part of Player.update and NPC.update: this.position,
\* this.velocity (which no branch assigns) and the registry afterwards
Slide(reg, id, position, velocity, deltaTime) ==
  LET m == Move(reg, id, position, SlideStep(velocity, deltaTime)) IN
  [position |-> m.position, velocity |-> velocity, registry |-> m.registry]

\* Player.update on foot
PlayerSlides ==
  /\ pc = "collision"
  /\ lastCall.op = "new"
  /\ \E velocity \in SlideVelocities, deltaTime \in SlideFrames :
       LET m == Slide(registry, PlayerId, player.position, velocity, deltaTime) IN
       /\ player' = [player EXCEPT !.position = m.position]
       /\ registry' = m.registry
       /\ lastCall' =
            [op |-> "Player.update", id |-> PlayerId, before |-> registry,
             position |-> player.position, velocity |-> velocity,
             deltaTime |-> deltaTime, velocityAfter |-> m.velocity]
  /\ UNCHANGED <<npcs, colliders, collisionRest>>

\* NPC.update
NPCSlides ==
  /\ pc = "collision"
  /\ lastCall.op = "new"
  /\ \E n \in DOMAIN npcs, velocity \in SlideVelocities, deltaTime \in SlideFrames :
       LET m == Slide(registry, NpcKey(n), npcs[n].position, velocity, deltaTime) IN
       /\ npcs' = [npcs EXCEPT ![n].position = m.position]
       /\ registry' = m.registry
       /\ lastCall' =
            [op |-> "NPC.update", id |-> NpcKey(n), before |-> registry,
             position |-> npcs[n].position, velocity |-> velocity,
             deltaTime |-> deltaTime, velocityAfter |-> m.velocity]
  /\ UNCHANGED <<player, colliders, collisionRest>>

NextSlide ==
  \/ PlayerSlides
  \/ NPCSlides

SpecSlide == InitCollision /\ [][NextSlide]_vars

\* ------------------------------------------------------------ bullet runs
\* One BulletManager: playerBullets is its list, a bullet being its
\* distanceTraveled, its range and its speed (the length of its velocity, in
\* pixels per second) with a number that tells the bullets apart; i counts the
\* bullets made.  A run adds bullets, removes bullets that hit something and
\* updates the manager with a deltaTime in tenths of a second, which can be 0.
BulletKinds == {"pistol", "rifle", "shotgun"}
BulletSpeed(type) ==
  CASE type = "pistol" -> 500 [] type = "rifle" -> 700 [] type = "shotgun" -> 400

\* new Bullet(position, direction, damage, bulletSpeed, range, size, ownerId),
\* direction being a unit vector
NewBullet(id, type) ==
  [id |-> id, distanceTraveled |-> 0, range |-> Config(type).range,
   bulletSpeed |-> BulletSpeed(type)]

\* Bullet.update
BulletUpdate(b, deltaTime) ==
  [b EXCEPT !.distanceTraveled = b.distanceTraveled + (b.bulletSpeed * deltaTime) \div 10]

\* Bullet.isOutOfRange
IsOutOfRange(b) == b.distanceTraveled > b.range

\* BulletManager.update with a loop that walks the list from the front
RECURSIVE UpdateBullets_Forward(_, _, _)
UpdateBullets_Forward(bullets, k, deltaTime) ==
  LET j == Len(bullets) - k + 1 IN
  IF k < 1 \/ j > Len(bullets) THEN bullets
  ELSE LET b == BulletUpdate(bullets[j], deltaTime)
           updated == [bullets EXCEPT ![j] = b]
       IN IF IsOutOfRange(b)
          THEN UpdateBullets_Forward(RemoveAt(updated, j), k - 2, deltaTime)
          ELSE UpdateBullets_Forward(updated, k - 1, deltaTime)

\* BulletManager.update: the loop from i = k down to 0 (k the last index at the
\* start), which updates bullets[i] and splices it out if it is out of range
RECURSIVE UpdateBullets(_, _, _)
UpdateBullets(bullets, k, deltaTime) ==
  IF k < 1 THEN bullets
  ELSE LET b == BulletUpdate(bullets[k], deltaTime)
           updated == [bullets EXCEPT ![k] = b]
       IN IF IsOutOfRange(b)
          THEN UpdateBullets(RemoveAt(updated, k), k - 1, deltaTime)
          ELSE UpdateBullets(updated, k - 1, deltaTime)

InitFlight ==
  /\ InitWeaponVars
  /\ maxNPCs = 0
  /\ maxVehicles = 0
  /\ pc = "flight"
  /\ i = 0
  /\ gameOver = FALSE
  /\ score = 0
  /\ player = NewPlayer
  /\ playerBullets = <<>>
  /\ npcs = EmptyMap
  /\ npcIdCounter = 0
  /\ vehicleObjs = EmptyMap
  /\ vehicles = {}
  /\ vehicleIdCounter = 0
  /\ npcBullets = <<>>
  /\ colliders = {PlayerId}
  /\ moved = {}
  /\ hits = <<>>
  /\ deadActed = {}

\* what the bullet runs leave alone
flightRest ==
  <<weapon, shouldFire, now, weapons, currentWeaponType, weaponBeforeVehicle,
    unitVars, maxNPCs, maxVehicles, pc, gameOver, score, player, npcs,
    npcIdCounter, vehicleObjs, vehicles, vehicleIdCounter, npcBullets, colliders,
    moved, hits, deadActed>>

\* BulletManager.addBullet(new Bullet(...))
BulletIsAdded ==
  /\ pc = "flight"
  /\ i < MaxBulletsMade
  /\ Len(playerBullets) < MaxInFlight
  /\ \E type \in BulletKinds :
       playerBullets' = Append(playerBullets, NewBullet(i, type))
  /\ i' = i + 1
  /\ lastCall' = [op |-> "BulletManager.addBullet"]
  /\ UNCHANGED flightRest

\* BulletManager.removeBullet(index), called on a hit
BulletIsRemoved ==
  /\ pc = "flight"
  /\ \E index \in 1..Len(playerBullets) :
       playerBullets' = RemoveAt(playerBullets, index)
  /\ lastCall' = [op |-> "BulletManager.removeBullet"]
  /\ UNCHANGED <<i, flightRest>>

\* BulletManager.update(deltaTime)
ManagerUpdates(deltaTime) ==
  /\ pc = "flight"
  /\ playerBullets' = UpdateBullets(playerBullets, Len(playerBullets), deltaTime)
  /\ lastCall' = [op |-> "BulletManager.update", deltaTime |-> deltaTime]
  /\ UNCHANGED <<i, flightRest>>

\* a tick of the game that is not over, with a positive deltaTime
FlightTick == \E deltaTime \in 1..MaxFrame : ManagerUpdates(deltaTime)

NextFlight ==
  \/ BulletIsAdded
  \/ BulletIsRemoved
  \/ ManagerUpdates(0)
  \/ FlightTick

\* the bullet runs in which ticks with a positive deltaTime keep occurring
SpecFlight == InitFlight /\ [][NextFlight]_vars /\ WF_vars(FlightTick)

\* ------------------------------------------------------------ vision runs
\* the while loops of NPC.isPointInVision, in degrees: 360 is taken off while the
\* difference is above 180 and added while it is below -180
RECURSIVE NormalizeAngle(_)
NormalizeAngle(angleDiff) ==
  IF angleDiff > 180 THEN NormalizeAngle(angleDiff - 360)
  ELSE IF angleDiff < -180 THEN NormalizeAngle(angleDiff + 360)
  ELSE angleDiff

Abs(x) == IF x < 0 THEN -x ELSE x

\* NPC.isPointInVision without the two while loops
IsPointInVision_NoNormalize(distance, pointAngle, directionAngle) ==
  IF distance > visionRange THEN FALSE
  ELSE 2 * Abs(pointAngle - directionAngle) <= visionAngle

\* NPC.isPointInVision(point): distance is toPoint.length(), pointAngle and
\* directionAngle are the two Math.atan2 results, in degrees
IsPointInVision(distance, pointAngle, directionAngle) ==
  IF distance > visionRange THEN FALSE
  ELSE 2 * Abs(NormalizeAngle(pointAngle - directionAngle)) <= visionAngle

\* distances of a target around visionRange
VisionDistances == {0, 100, visionRange - 1, visionRange, visionRange + 1, 200}

\* results of Math.atan2, in degrees, around 0, the edges of the cone and the
\* wrap at 180
VisionAngles ==
  {-180, -179, -121, -120, -119, -61, -60, -59, -1, 0, 1, 59, 60, 61, 119, 120,
   121, 179, 180}

\* an NPC looks at a point: npc.isPointInVision(point)
NPCLooks ==
  /\ pc = "NPC"
  /\ lastCall.op = "new"
  /\ \E distance \in VisionDistances, pointAngle \in VisionAngles,
        directionAngle \in VisionAngles :
       lastCall' = [op |-> "NPC.isPointInVision", distance |-> distance,
                    pointAngle |-> pointAngle, directionAngle |-> directionAngle,
                    result |-> IsPointInVision(distance, pointAngle,
                                               directionAngle)]
  /\ UNCHANGED <<player, npcs, npcRest>>

\* an NPC as constructed looks at a point (the test reads the position and the
\* direction and changes nothing)
SpecVision == InitNPC /\ [][NPCLooks]_vars

\* ------------------------------------------------------------ Vehicle
\* A velocity is a pair of whole multiples of 1/25 pixel per second (0.04 px/s),
\* the unit in which one call of accelerate adds a whole number on every heading
\* below; what the code computes in floating point is cut to that unit.
ToUnits(pixelsPerSecond) == 25 * pixelsPerSecond

\* n / d cut toward zero, d > 0
Trunc(n, d) == IF n >= 0 THEN n \div d ELSE -((-n) \div d)

\* |t| * |m| / n cut toward zero, with the sign of t * m, without forming t * m
MulDiv(t, m, n) ==
  LET at == IF t < 0 THEN -t ELSE t
      am == IF m < 0 THEN -m ELSE m
      q == (at \div n) * am + ((at % n) * am) \div n
  IN IF (t < 0) = (m < 0) THEN q ELSE -q

\* Vector2.multiply by num / den
Scale(v, num, den) == <<Trunc(v[1] * num, den), Trunc(v[2] * num, den)>>

\* Vector2.length, squared
Speed2(v) == Sq(v[1]) + Sq(v[2])

\* The headings of a run: rotation is the index of an angle whose cosine and
\* sine are whole fifths (0, 36.87, 53.13, 90, ... degrees); Headings[r + 1] is
\* 5 * <<Math.cos(rotation), Math.sin(rotation)>>.  A quarter turn is 3 indices.
Headings ==
  << <<5, 0>>, <<4, 3>>, <<3, 4>>, <<0, 5>>, <<-3, 4>>, <<-4, 3>>,
     <<-5, 0>>, <<-4, -3>>, <<-3, -4>>, <<0, -5>>, <<3, -4>>, <<4, -3>> >>
Cos5(r) == Headings[(r % 12) + 1][1]
Sin5(r) == Headings[(r % 12) + 1][2]

\* new Vehicle(id, position), with the fields the physics reads
NewCar(p) ==
  [position |-> p, velocity |-> <<0, 0>>, rotation |-> 0,
   health |-> vehicleMaxHealth, isDead |-> FALSE, occupantId |-> "none"]

\* Vehicle.accelerate: direction * acceleration * 0.016 is added when the speed
\* is below maxSpeed
Accelerate(v) ==
  IF Speed2(v.velocity) < Sq(ToUnits(maxSpeed))
  THEN [v EXCEPT !.velocity =
          <<v.velocity[1] + Trunc(ToUnits(acceleration) * 16 * Cos5(v.rotation), 5000),
            v.velocity[2] + Trunc(ToUnits(acceleration) * 16 * Sin5(v.rotation), 5000)>>]
  ELSE v

\* Vehicle.decelerate
Decelerate(v) == [v EXCEPT !.velocity = Scale(v.velocity, 85, 100)]

\* Vehicle.setRotation
SetRotation(v, angle) == [v EXCEPT !.rotation = angle]

\* velocity * deltaTime in whole pixels, deltaTime in tenths of a second
Displacement(velocity, deltaTime) ==
  <<Trunc(velocity[1] * deltaTime, 250), Trunc(velocity[2] * deltaTime, 250)>>

\* Math.max(1, Math.floor(collisionSpeed / 30)), from the squared speed
ImpactDamage(speed2) ==
  Max(1, CHOOSE k \in 0..40 :
           Sq(ToUnits(30) * k) <= speed2 /\ speed2 < Sq(ToUnits(30) * (k + 1)))

\* the order in which the ids of a run of the vehicle's physics were registered
\* (the map's buildings, the player, then the vehicle): the iteration order of
\* CollisionSystem.colliders and so of the list getCollisions returns
Registered == <<BuildingKey(0), BuildingKey(1), PlayerId, VehicleKey(0)>>
FirstCollider(collisions) ==
  Registered[CHOOSE k \in 1..Len(Registered) :
               /\ Registered[k] \in collisions
               /\ \A j \in 1..(k - 1) : Registered[j] \notin collisions]

\* the normal Vehicle.update asks for: that of the first collider of the list
\* (no computation returns null for two registered colliders)
CollisionNormal(reg, id, collisions) ==
  LET colliderId == FirstCollider(collisions) IN
  IF reg[colliderId].type = "circle"
  THEN GetCollisionNormal(reg, id, colliderId)
  ELSE GetCollisionNormalCircleRect(reg, id, colliderId)

\* the velocity after the bounce on the normal of direction <<n.x, n.y>>:
\* velocity - (1 + restitution) * (velocity . normal) * normal when the velocity
\* points against the normal, else the velocity as it is
Bounce(velocity, n) ==
  LET dot == velocity[1] * n.x + velocity[2] * n.y
      len2 == Sq(n.x) + Sq(n.y)
  IN IF n.null THEN Scale(velocity, -restitution, 10)
     ELSE IF dot < 0
     THEN <<velocity[1] - MulDiv((10 + restitution) * dot, n.x, 10 * len2),
            velocity[2] - MulDiv((10 + restitution) * dot, n.y, 10 * len2)>>
     ELSE velocity

\* the blocked component of the velocity turned round at full strength
Reflect_Undamped(component) == -component

\* the blocked component of the velocity after a slide along the free axis:
\* -component * restitution
Reflect(component) == Trunc(-component * restitution, 10)

\* Vehicle.update: friction, then the tentative position; when it collides the
\* X-only position, else the Y-only position, with the other component of the
\* velocity reflected; when both collide the vehicle stays, its velocity bounces
\* on the normal and the impact damage is taken if collisionSpeed > 50.  The
\* result is the vehicle and the registry afterwards, with the list of
\* collisions of the tentative position, the branch taken and the damage.
CarUpdate(v, reg, id, deltaTime) ==
  LET velocity == Scale(v.velocity, friction, 100)
      d == Displacement(velocity, deltaTime)
      newPosition == <<v.position[1] + d[1], v.position[2] + d[2]>>
      r1 == UpdatePosition(reg, id, newPosition)
      collisions == GetCollisions(r1, id)
      collisionSpeed2 == Speed2(velocity)
      testX == <<v.position[1] + d[1], v.position[2]>>
      r2 == UpdatePosition(r1, id, testX)
      testY == <<v.position[1], v.position[2] + d[2]>>
      r3 == UpdatePosition(r2, id, testY)
      r4 == UpdatePosition(r3, id, v.position)
      damage == IF collisionSpeed2 > Sq(ToUnits(50))
                THEN ImpactDamage(collisionSpeed2) ELSE 0
      hit == IF damage > 0 THEN VehicleTakeDamage(v, damage) ELSE v
  IN IF collisions = {}
     THEN [vehicle |-> [v EXCEPT !.position = newPosition, !.velocity = velocity],
           registry |-> r1, collisions |-> {}, branch |-> "free", damage |-> 0]
     ELSE IF GetCollisions(r2, id) = {}
     THEN [vehicle |-> [v EXCEPT !.position = testX,
                           !.velocity = <<velocity[1], Reflect(velocity[2])>>],
           registry |-> r2, collisions |-> collisions, branch |-> "x",
           damage |-> 0]
     ELSE IF GetCollisions(r3, id) = {}
     THEN [vehicle |-> [v EXCEPT !.position = testY,
                           !.velocity = <<Reflect(velocity[1]), velocity[2]>>],
           registry |-> r3, collisions |-> collisions, branch |-> "y",
           damage |-> 0]
     ELSE [vehicle |->
             [hit EXCEPT !.velocity =
                Bounce(velocity, CollisionNormal(r4, id, collisions))],
           registry |-> r4, collisions |-> collisions, branch |-> "normal",
           damage |-> damage]

\* the exit position of Player.exitVehicle: offsetDistance from the vehicle at
\* rotation + Math.PI / 2
ExitPosition(v) ==
  <<v.position[1] + (Cos5(v.rotation + 3) * offsetDistance) \div 5,
    v.position[2] + (Sin5(v.rotation + 3) * offsetDistance) \div 5>>

\* Player.exitVehicle that does not tell the collision system
ExitCar_NoRegistry(p, v, reg) ==
  [player |-> [p EXCEPT !.position = ExitPosition(v), !.currentVehicle = NoVehicle],
   vehicle |-> [v EXCEPT !.occupantId = "none", !.velocity = <<0, 0>>],
   registry |-> reg]

\* Player.exitVehicle with Vehicle.exitVehicle, the player being in vehicle v
ExitCar(p, v, reg) ==
  [player |-> [p EXCEPT !.position = ExitPosition(v), !.currentVehicle = NoVehicle],
   vehicle |-> [v EXCEPT !.occupantId = "none", !.velocity = <<0, 0>>],
   registry |-> UpdatePosition(reg, PlayerId, ExitPosition(v))]

\* ------------------------------------------------------------ vehicle runs
\* One vehicle between a wall to its right and a second building below it,
\* the player on foot up and to the left.  The vehicle starts on one of the
\* headings, at the velocity that many calls of accelerate from rest on that
\* heading give it; a run calls accelerate, decelerate, setRotation and update on
\* it and lets the player enter and leave it.  i counts the calls and moved
\* collects their names.
CarStart == <<15, 18>>
DriverStart == <<-5, -2>>
StartHeadings == {0, 1, 7}
StartAccelerations == {0, 14, 124}
TurnHeadings == {0, 2, 6}
DriveFrames == {1}
DriveWall == Rect(<<40, -100>>, 20, 200)
DriveFloor == Rect(<<-100, 40>>, 200, 20)

InitDrive ==
  /\ createNPCWrapped = TRUE
  /\ InitInput
  /\ lastReloadTime = 0
  /\ onShoot = {}
  /\ lastShotTime = EmptyMap
  /\ weapon = NewWeapon("pistol", Infinity)
  /\ shouldFire = FALSE
  /\ now = 0
  /\ lastCall = [op |-> "new"]
  /\ weapons = [t \in {"pistol"} |-> NewWeapon("pistol", Infinity)]
  /\ currentWeaponType = "pistol"
  /\ weaponBeforeVehicle = "pistol"
  /\ maxNPCs = 0
  /\ maxVehicles = 1
  /\ pc = "drive"
  /\ i = 0
  /\ gameOver = FALSE
  /\ score = 0
  /\ player = [NewPlayer EXCEPT !.position = DriverStart]
  /\ playerBullets = <<>>
  /\ npcs = EmptyMap
  /\ npcIdCounter = 0
  /\ \E r \in StartHeadings, k \in StartAccelerations :
       vehicleObjs =
         [v \in {0} |->
            [NewCar(CarStart) EXCEPT
               !.rotation = r,
               !.velocity =
                  <<k * Trunc(ToUnits(acceleration) * 16 * Cos5(r), 5000),
                    k * Trunc(ToUnits(acceleration) * 16 * Sin5(r), 5000)>>]]
  /\ vehicles = {0}
  /\ vehicleIdCounter = 1
  /\ npcBullets = <<>>
  /\ registry =
       [k \in {BuildingKey(0), BuildingKey(1), PlayerId, VehicleKey(0)} |->
          IF k = BuildingKey(0) THEN DriveWall
          ELSE IF k = BuildingKey(1) THEN DriveFloor
          ELSE IF k = PlayerId THEN Circle(DriverStart, playerRadius)
          ELSE Circle(CarStart, VehicleRadius)]
  /\ colliders = {PlayerId, VehicleKey(0)}
  /\ moved = {}
  /\ hits = <<>>
  /\ deadActed = {}

\* what the vehicle runs leave alone
driveRest ==
  <<weapon, shouldFire, now, weapons, maxNPCs, maxVehicles, pc, gameOver, score,
    playerBullets, npcs, npcIdCounter, vehicles, vehicleIdCounter, npcBullets,
    colliders, hits, deadActed, createNPCWrapped, onShoot, lastShotTime, keys,
    keysJustPressed, lastReloadTime>>

\* Vehicle.accelerate
CarAccelerates ==
  /\ pc = "drive" /\ i < MaxDriveCalls
  /\ i' = i + 1
  /\ vehicleObjs' = [vehicleObjs EXCEPT ![0] = Accelerate(vehicleObjs[0])]
  /\ lastCall' = [op |-> "Vehicle.accelerate"]
  /\ moved' = moved \cup {"Vehicle.accelerate"}
  /\ UNCHANGED <<player, registry, currentWeaponType, weaponBeforeVehicle, driveRest>>

\* Vehicle.decelerate
CarDecelerates ==
  /\ pc = "drive" /\ i < MaxDriveCalls
  /\ i' = i + 1
  /\ vehicleObjs' = [vehicleObjs EXCEPT ![0] = Decelerate(vehicleObjs[0])]
  /\ lastCall' = [op |-> "Vehicle.decelerate"]
  /\ moved' = moved \cup {"Vehicle.decelerate"}
  /\ UNCHANGED <<player, registry, currentWeaponType, weaponBeforeVehicle, driveRest>>

\* Vehicle.setRotation
CarTurns ==
  /\ pc = "drive" /\ i < MaxDriveCalls
  /\ i' = i + 1
  /\ \E angle \in TurnHeadings :
       /\ angle # vehicleObjs[0].rotation
       /\ vehicleObjs' = [vehicleObjs EXCEPT ![0] = SetRotation(vehicleObjs[0], angle)]
  /\ lastCall' = [op |-> "Vehicle.setRotation"]
  /\ moved' = moved \cup {"Vehicle.setRotation"}
  /\ UNCHANGED <<player, registry, currentWeaponType, weaponBeforeVehicle, driveRest>>

\* Vehicle.update(deltaTime)
CarUpdates ==
  /\ pc = "drive" /\ i < MaxDriveCalls
  /\ i' = i + 1
  /\ \E deltaTime \in DriveFrames :
       LET u == CarUpdate(vehicleObjs[0], registry, VehicleKey(0), deltaTime) IN
       /\ vehicleObjs' = [vehicleObjs EXCEPT ![0] = u.vehicle]
       /\ registry' = u.registry
       /\ lastCall' =
            [op |-> "Vehicle.update", collisions |-> u.collisions,
             branch |-> u.branch, damage |-> u.damage,
             before |-> vehicleObjs[0], deltaTime |-> deltaTime]
  /\ moved' = moved \cup {"Vehicle.update"}
  /\ UNCHANGED <<player, currentWeaponType, weaponBeforeVehicle, driveRest>>

\* Player.enterVehicle(vehicle), with Vehicle.enterVehicle
DriverEnters ==
  /\ pc = "drive" /\ i < MaxDriveCalls
  /\ player.currentVehicle = NoVehicle
  /\ i' = i + 1
  /\ player' = [player EXCEPT !.currentVehicle = 0]
  /\ weaponBeforeVehicle' = currentWeaponType
  /\ currentWeaponType' = "pistol"
  /\ vehicleObjs' = [vehicleObjs EXCEPT ![0].occupantId = "player"]
  /\ lastCall' = [op |-> "Player.enterVehicle"]
  /\ moved' = moved \cup {"Player.enterVehicle"}
  /\ UNCHANGED <<registry, driveRest>>

\* Player.exitVehicle
DriverExits ==
  /\ pc = "drive" /\ i < MaxDriveCalls
  /\ i' = i + 1
  /\ IF player.currentVehicle = NoVehicle
     THEN UNCHANGED <<player, vehicleObjs, registry, currentWeaponType>>
     ELSE LET e == ExitCar(player, vehicleObjs[player.currentVehicle], registry) IN
          /\ player' = e.player
          /\ vehicleObjs' = [vehicleObjs EXCEPT ![player.currentVehicle] = e.vehicle]
          /\ registry' = e.registry
          /\ currentWeaponType' =
               WeaponAfterVehicle(currentWeaponType, DOMAIN weapons,
                                  weaponBeforeVehicle)
  /\ lastCall' = [op |-> "Player.exitVehicle", before |-> vehicleObjs[0],
                  wasIn |-> player.currentVehicle]
  /\ moved' = moved \cup {"Player.exitVehicle"}
  /\ UNCHANGED <<weaponBeforeVehicle, driveRest>>

\* Player.update in a vehicle, with the input movement = <<0, y>> (no turn):
\* accelerate if y < 0, decelerate if y > 0, then this.position becomes the
\* vehicle's position; the collision system is not told
DriverUpdates ==
  /\ pc = "drive" /\ i < MaxDriveCalls
  /\ player.currentVehicle # NoVehicle
  /\ i' = i + 1
  /\ \E y \in {-1, 0, 1} :
       LET v == vehicleObjs[player.currentVehicle]
           w == IF y < 0 THEN Accelerate(v)
                ELSE IF y > 0 THEN Decelerate(v) ELSE v
       IN /\ vehicleObjs' = [vehicleObjs EXCEPT ![player.currentVehicle] = w]
          /\ player' = [player EXCEPT !.position = w.position]
          /\ moved' = moved \cup {"Player.update"}
                             \cup (IF y < 0 THEN {"Vehicle.accelerate"}
                                   ELSE IF y > 0 THEN {"Vehicle.decelerate"} ELSE {})
  /\ lastCall' = [op |-> "Player.update"]
  /\ UNCHANGED <<registry, currentWeaponType, weaponBeforeVehicle, driveRest>>

NextDrive ==
  \/ CarAccelerates
  \/ CarDecelerates
  \/ CarTurns
  \/ CarUpdates
  \/ DriverEnters
  \/ DriverExits
  \/ DriverUpdates

SpecDrive == InitDrive /\ [][NextDrive]_vars

\* ------------------------------------------------------------ patrol runs
\* NPC in the plane, as a run on one NPC: positions are pairs of whole pixels,
\* velocities whole pixels per second, deltaTime tenths of a second.

\* targetPosition = null
NoPoint == <<>>

\* Vector2.length, to the whole pixel below
Length(v) ==
  LET d2 == Sq(v[1]) + Sq(v[2])
  IN CHOOSE r \in 0..MaxLength : Sq(r) <= d2 /\ Sq(r + 1) > d2

\* direction.normalize().multiply(speed * factor / 10)
Heading(direction, factor) ==
  LET len == Length(direction)
  IN IF len = 0 THEN <<0, 0>>
     ELSE <<Trunc(direction[1] * npcSpeed * factor, 10 * len),
            Trunc(direction[2] * npcSpeed * factor, 10 * len)>>

\* the route NPCManager.spawnNPCsAroundPlayer gives an NPC spawned at <<x, y>>
Route(p) ==
  << p, <<p[1] + 200, p[2]>>, <<p[1] + 200, p[2] + 200>>, <<p[1], p[2] + 200>> >>

\* new NPC(id, position), then setPatrolPoints(points); currentPatrolIndex counts
\* from 0, patrolPoints[k] of the code is patrolPoints[k + 1] here
NewPatroller(p, points) ==
  [position |-> p, velocity |-> <<0, 0>>, health |-> npcMaxHealth,
   isDead |-> FALSE,
   behavior |-> IF Len(points) > 0 THEN "patrol" ELSE "idle",
   targetPosition |-> IF Len(points) > 0 THEN points[1] ELSE NoPoint,
   patrolPoints |-> points, currentPatrolIndex |-> 0, idleTimer |-> 0]

\* NPC.setBehavior
SetBehavior(n, behavior) ==
  IF behavior = "idle"
  THEN [n EXCEPT !.behavior = behavior, !.idleTimer = 0, !.velocity = <<0, 0>>]
  ELSE [n EXCEPT !.behavior = behavior]

\* NPC.updateIdle
UpdateIdle(n, deltaTime) ==
  LET t == [n EXCEPT !.idleTimer = n.idleTimer + deltaTime,
                     !.velocity = <<0, 0>>]
  IN IF t.idleTimer > idleDuration THEN SetBehavior(t, "patrol") ELSE t

\* NPC.updatePatrol
UpdatePatrol(n) ==
  IF Len(n.patrolPoints) = 0 THEN SetBehavior(n, "idle")
  ELSE LET t == IF n.targetPosition = NoPoint
                THEN [n EXCEPT !.targetPosition =
                                  n.patrolPoints[n.currentPatrolIndex + 1]]
                ELSE n
           direction == <<t.targetPosition[1] - t.position[1],
                          t.targetPosition[2] - t.position[2]>>
           next == (t.currentPatrolIndex + 1) % Len(t.patrolPoints)
       IN IF Distance2(t.targetPosition, t.position) < Sq(arrivalDistance)
          THEN [t EXCEPT !.currentPatrolIndex = next,
                         !.targetPosition = t.patrolPoints[next + 1],
                         !.velocity = <<0, 0>>]
          ELSE [t EXCEPT !.velocity = Heading(direction, 10)]

\* NPC.updateChase
UpdateChase(n) ==
  IF n.targetPosition = NoPoint THEN n
  ELSE LET direction == <<n.targetPosition[1] - n.position[1],
                          n.targetPosition[2] - n.position[2]>>
       IN IF direction # <<0, 0>>
          THEN [n EXCEPT !.velocity = Heading(direction, 12)]
          ELSE n

\* NPC.updateFlee
UpdateFlee(n, playerPosition) ==
  LET direction == <<n.position[1] - playerPosition[1],
                     n.position[2] - playerPosition[2]>>
  IN IF Distance2(n.position, playerPosition) > Sq(fleeRange)
     THEN SetBehavior(n, "patrol")
     ELSE IF direction # <<0, 0>>
          THEN [n EXCEPT !.velocity = Heading(direction, 15)]
          ELSE n

\* NPC.isPointInVision; facing tells that the point is within the vision
\* cone's angle
PatrolSees(n, playerPosition, facing) ==
  /\ Distance2(n.position, playerPosition) <= Sq(visionRange)
  /\ facing

\* NPC.update(deltaTime, playerPosition) of an NPC without a collision system and
\* without a shoot callback (tryShoot does nothing)
PatrolUpdate(n, deltaTime, playerPosition, facing) ==
  LET seen == PatrolSees(n, playerPosition, facing)
      a == IF seen
           THEN [SetBehavior(n, "chase") EXCEPT !.targetPosition = playerPosition]
           ELSE IF n.behavior = "chase" THEN SetBehavior(n, "patrol")
           ELSE n
      b == CASE a.behavior = "idle" -> UpdateIdle(a, deltaTime)
             [] a.behavior = "patrol" -> UpdatePatrol(a)
             [] a.behavior = "chase" -> UpdateChase(a)
             [] a.behavior = "flee" -> UpdateFlee(a, playerPosition)
  IN [b EXCEPT !.position = <<b.position[1] + Trunc(b.velocity[1] * deltaTime, 10),
                              b.position[2] + Trunc(b.velocity[2] * deltaTime, 10)>>]

\* NPC.takeDamage(damage, attackerPosition) with an attacker
PatrolTakeDamage(n, damage, attackerPosition) ==
  IF n.isDead THEN n
  ELSE LET h == IF n.health - damage <= 0
                THEN [n EXCEPT !.health = 0, !.isDead = TRUE]
                ELSE [n EXCEPT !.health = n.health - damage]
       IN [SetBehavior(h, "chase") EXCEPT !.targetPosition = attackerPosition]

\* where the NPC of a patrol run is spawned, where the player is seen or shoots
\* from, and the frame length
PatrolSpawn == <<0, 0>>
PatrolSpots == {<<100, 0>>, <<200, 100>>, <<120, 60>>}
PatrolFrames == {5}

\* One NPC as constructed, with the manager's route or without patrol points.
InitPatrol ==
  /\ InitWeaponVars
  /\ currentWeaponType = "pistol"
  /\ weaponBeforeVehicle = "pistol"
  /\ maxNPCs = 1
  /\ maxVehicles = 0
  /\ pc = "patrol"
  /\ i = 0
  /\ gameOver = FALSE
  /\ score = 0
  /\ player = NewPlayer
  /\ playerBullets = <<>>
  /\ \E points \in {Route(PatrolSpawn), <<>>} :
       npcs = [n \in {0} |-> NewPatroller(PatrolSpawn, points)]
  /\ npcIdCounter = 1
  /\ vehicleObjs = EmptyMap
  /\ vehicles = {}
  /\ vehicleIdCounter = 0
  /\ npcBullets = <<>>
  /\ colliders = {}
  /\ moved = {}
  /\ hits = <<>>
  /\ deadActed = {}

\* what the patrol runs leave alone
patrolRest ==
  <<weapon, shouldFire, now, weapons, currentWeaponType, weaponBeforeVehicle,
    maxNPCs, maxVehicles, pc, gameOver, score, playerBullets, npcIdCounter,
    vehicleObjs, vehicles, vehicleIdCounter, npcBullets, colliders, moved, hits,
    deadActed, unitVars>>

\* npc.update(deltaTime, playerPosition) on the NPC alive, as NPCManager.update
\* calls it
PatrollerUpdates ==
  /\ pc = "patrol"
  /\ ~npcs[0].isDead
  /\ \E deltaTime \in PatrolFrames, playerPosition \in PatrolSpots, facing \in BOOLEAN :
       /\ PatrolSees(npcs[0], playerPosition, facing) => i < MaxSightings
       /\ i' = IF PatrolSees(npcs[0], playerPosition, facing) THEN i + 1 ELSE i
       /\ npcs' = [npcs EXCEPT ![0] = PatrolUpdate(npcs[0], deltaTime, playerPosition, facing)]
       /\ lastCall' = [op |-> "NPC.update", before |-> npcs[0]]
  /\ UNCHANGED <<player, patrolRest>>

\* npc.takeDamage(damage, attackerPosition)
PatrollerDamaged ==
  /\ pc = "patrol"
  /\ i < MaxSightings
  /\ i' = i + 1
  /\ \E attackerPosition \in PatrolSpots :
       npcs' = [npcs EXCEPT ![0] = PatrolTakeDamage(npcs[0], pistolDamage, attackerPosition)]
  /\ lastCall' = [op |-> "NPC.takeDamage", before |-> npcs[0]]
  /\ UNCHANGED <<player, patrolRest>>

NextPatrol == PatrollerUpdates \/ PatrollerDamaged

SpecPatrol == InitPatrol /\ [][NextPatrol]_vars

\* ------------------------------------------------------------ input runs
\* The input manager under the game loop.  The browser runs the keydown and keyup
\* listeners between two frames; a frame is Game.update.  Of a frame that is not
\* a game-over frame the run keeps what reads or clears the keys and what ends the
\* game: handleVehicleInteraction, then the rest up to the gameOver test (the
\* player may have been killed) and clearJustPressedKeys.  History: i counts the
\* times F went from up to down, lastCall.interactions the times the player
\* entered or left a vehicle, lastCall.seen the frames begun with F just pressed
\* since F was last marked, now the frames run.

\* the keydown listener
KeyDown(key) ==
  [keys |-> [keys EXCEPT ![key] = TRUE],
   keysJustPressed |-> IF ~keys[key] THEN keysJustPressed \cup {key}
                       ELSE keysJustPressed]

\* InputManager.isKeyJustPressed
IsKeyJustPressed(key) == key \in keysJustPressed

\* InputManager.isKeyPressed
IsKeyPressed(key) == keys[key]

\* A new game with one vehicle parked beside the player
InitInputRun ==
  /\ InitWeaponVars
  /\ currentWeaponType = "pistol"
  /\ weaponBeforeVehicle = "pistol"
  /\ maxNPCs = 0
  /\ maxVehicles = 1
  /\ pc = "input"
  /\ i = 0
  /\ gameOver = FALSE
  /\ score = 0
  /\ player = NewPlayer
  /\ playerBullets = <<>>
  /\ npcs = EmptyMap
  /\ npcIdCounter = 0
  /\ vehicleObjs = [v \in {0} |-> NewVehicle(0)]
  /\ vehicles = {0}
  /\ vehicleIdCounter = 1
  /\ npcBullets = <<>>
  /\ colliders = {PlayerId, VehicleKey(0)}
  /\ moved = {}
  /\ hits = <<>>
  /\ deadActed = {}

\* what the key listeners leave alone
gameRest ==
  <<weapon, shouldFire, weapons, currentWeaponType, weaponBeforeVehicle,
    createNPCWrapped, onShoot, lastShotTime, lastReloadTime, registry, maxNPCs,
    maxVehicles, pc, gameOver, score, player, playerBullets, npcs, npcIdCounter, vehicleObjs,
    vehicles, vehicleIdCounter, npcBullets, colliders, moved, hits, deadActed>>

\* the history of an input run as the last call left it
History(op) ==
  [op |-> op,
   interactions |-> IF lastCall.op = "new" THEN 0 ELSE lastCall.interactions,
   seen |-> IF lastCall.op = "new" THEN 0 ELSE lastCall.seen]

\* a keydown event: the key goes down, or is held and repeats
KeyGoesDown ==
  /\ pc = "input"
  /\ \E key \in Keys :
       /\ key = "f" /\ ~keys[key] => i < MaxPresses
       /\ i' = IF key = "f" /\ ~keys[key] THEN i + 1 ELSE i
       /\ keys' = KeyDown(key).keys
       /\ keysJustPressed' = KeyDown(key).keysJustPressed
       /\ lastCall' = IF key = "f" /\ ~keys[key]
                      THEN [History("keydown") EXCEPT !.seen = 0]
                      ELSE History("keydown")
  /\ UNCHANGED <<now, gameRest>>

\* a keyup event
KeyGoesUp ==
  /\ pc = "input"
  /\ \E key \in Keys :
       /\ keys[key]
       /\ keys' = [keys EXCEPT ![key] = FALSE]
  /\ lastCall' = History("keyup")
  /\ UNCHANGED <<now, i, keysJustPressed, gameRest>>

\* Game.update while the game is over: restartGame if R is down, and return
GameOverFrame ==
  /\ pc = "input" /\ gameOver
  /\ now < MaxTicks
  /\ now' = now + 1
  /\ IF IsKeyPressed("r") THEN RestartGame
     ELSE UNCHANGED <<score, gameOver, npcBullets, player, playerBullets,
                      colliders, npcs, npcIdCounter, vehicleObjs, vehicles,
                      vehicleIdCounter, weapons, currentWeaponType,
                      weaponBeforeVehicle>>
  /\ lastCall' = [History("Game.update") EXCEPT
                    !.seen = IF IsKeyJustPressed("f") THEN @ + 1 ELSE @]
  /\ UNCHANGED <<weapon, shouldFire, unitVars, maxNPCs, maxVehicles, pc, i, moved,
                 hits, deadActed>>

\* Game.update, the game not over, up to handleVehicleInteraction
FrameInteraction ==
  /\ pc = "input" /\ ~gameOver
  /\ now < MaxTicks
  /\ now' = now + 1
  /\ pc' = "inputEnd"
  /\ LET f == IsKeyJustPressed("f")
         acts == f /\ (player.currentVehicle # NoVehicle \/ NearbyVehicles # {})
     IN /\ IF player.currentVehicle # NoVehicle
           THEN IF f THEN PlayerExitVehicle ELSE UNCHANGED <<player, vehicleObjs>>
           ELSE IF NearbyVehicles # {} /\ f
                THEN PlayerEnterVehicle(SortedIds(NearbyVehicles)[1])
                ELSE UNCHANGED <<player, vehicleObjs>>
        /\ lastCall' = [History("Game.handleVehicleInteraction") EXCEPT
                          !.interactions = IF acts THEN @ + 1 ELSE @,
                          !.seen = IF f THEN @ + 1 ELSE @]
  /\ UNCHANGED <<weapon, shouldFire, weapons, currentWeaponType, weaponBeforeVehicle,
                 unitVars, maxNPCs, maxVehicles, i, gameOver, score, playerBullets,
                 npcs, npcIdCounter, vehicles, vehicleIdCounter, npcBullets,
                 colliders, moved, hits, deadActed>>

\* Game.update, the game not over, from checkNPCBulletHits (the player is killed
\* or not) to the gameOver test and clearJustPressedKeys
FrameEnd ==
  /\ pc = "inputEnd"
  /\ pc' = "input"
  /\ \E killed \in BOOLEAN :
       player' = IF killed THEN PlayerTakeDamage(player, player.health) ELSE player
  /\ gameOver' = player'.isDead
  /\ keysJustPressed' = {}
  /\ lastCall' = History("Game.update")
  /\ UNCHANGED <<weapon, shouldFire, now, weapons, currentWeaponType,
                 weaponBeforeVehicle, createNPCWrapped, onShoot, lastShotTime, keys,
                 lastReloadTime,
                 registry, maxNPCs, maxVehicles, i, score, playerBullets, npcs,
                 npcIdCounter, vehicleObjs, vehicles, vehicleIdCounter, npcBullets,
                 colliders, moved, hits, deadActed>>

NextInput ==
  \/ KeyGoesDown
  \/ KeyGoesUp
  \/ GameOverFrame
  \/ FrameInteraction
  \/ FrameEnd

SpecInput == InitInputRun /\ [][NextInput]_vars

\* ------------------------------------------------------------ reload runs
\* Player.reload(currentTime): Weapon.startReload, then the time is noted
PlayerReload(w, currentTime) ==
  [weapon |-> StartReload(w, currentTime), lastReloadTime |-> currentTime]

\* Player.getReloadProgress(currentTime), in hundredths
GetReloadProgress(w, reloadTime, currentTime) ==
  IF ~w.isReloading THEN 0
  ELSE LET elapsed == currentTime - reloadTime
       IN Min((elapsed * 100) \div Config(w.type).reloadTime, 100)

\* A weapon of any type in the player's hand, its magazine empty or at its last
\* round, with no reserve, one round or one magazine of reserve; a run calls
\* Player.fire and Player.update while the clock advances.
InitReload ==
  /\ \E type \in WeaponTypes :
       \E ammo \in {0, 1}, reserve \in {0, 1, Config(type).magazineCapacity} :
         /\ weapon = [NewWeapon(type, reserve) EXCEPT !.currentAmmo = ammo]
         /\ weapons = [t \in {type} |-> weapon]
         /\ currentWeaponType = type
         /\ weaponBeforeVehicle = type
  /\ InitUnitVars
  /\ shouldFire = FALSE
  /\ now = 0
  /\ lastCall = [op |-> "new"]
  /\ maxNPCs = 0
  /\ maxVehicles = 0
  /\ pc = "reload"
  /\ i = 0
  /\ gameOver = FALSE
  /\ score = 0
  /\ player = NewPlayer
  /\ playerBullets = <<>>
  /\ npcs = EmptyMap
  /\ npcIdCounter = 0
  /\ vehicleObjs = EmptyMap
  /\ vehicles = {}
  /\ vehicleIdCounter = 0
  /\ npcBullets = <<>>
  /\ colliders = {PlayerId}
  /\ moved = {}
  /\ hits = <<>>
  /\ deadActed = {}

\* what the reload runs leave alone
reloadRest ==
  <<currentWeaponType, weaponBeforeVehicle, maxNPCs, maxVehicles, pc, i, gameOver,
    score, player, npcs, npcIdCounter, vehicleObjs, vehicles, vehicleIdCounter,
    npcBullets, colliders, moved, hits, deadActed, createNPCWrapped, onShoot,
    lastShotTime, keys, keysJustPressed, registry>>

\* the clock advances by a tenth of a second
ReloadTick ==
  /\ pc = "reload"
  /\ now < MaxTime
  /\ now' = now + 1
  /\ lastCall' = [op |-> "tick"]
  /\ UNCHANGED <<weapon, weapons, shouldFire, playerBullets, lastReloadTime, reloadRest>>

\* player.fire(currentTime): on an empty magazine with a reserve it calls
\* this.reload(currentTime) and returns
PlayerFiresOrReloads ==
  /\ pc = "reload"
  /\ \E enemy \in BOOLEAN :
       LET o == PlayerFireOutcome(weapon, shouldFire, enemy, now)
           reloads == enemy /\ weapon.currentAmmo <= 0 /\ weapon.reserveAmmo > 0
       IN /\ Len(playerBullets) + o.bullets <= MaxFlight
          /\ weapon' = IF reloads THEN PlayerReload(weapon, now).weapon ELSE o.weapon
          /\ lastReloadTime' = IF reloads THEN PlayerReload(weapon, now).lastReloadTime
                               ELSE lastReloadTime
          /\ shouldFire' = o.shouldFire
          /\ playerBullets' = playerBullets
                                \o [k \in 1..o.bullets |->
                                      WeaponBullet(weapon, player.position)]
          /\ lastCall' = [op |-> "Player.fire", before |-> weapon, enemy |-> enemy]
  /\ InHand
  /\ UNCHANGED <<now, reloadRest>>

\* player.update(deltaTime, movement, currentTime), its last lines:
\* bulletManager.update (the bullets in flight go out of range or not) and
\* weapon.updateReload(currentTime)
PlayerUpdatesReload ==
  /\ pc = "reload"
  /\ playerBullets' \in {playerBullets, <<>>}
  /\ weapon' = UpdateReload(weapon, now)
  /\ lastCall' = [op |-> "Player.update", before |-> weapon]
  /\ InHand
  /\ UNCHANGED <<shouldFire, now, lastReloadTime, reloadRest>>

NextReload == ReloadTick \/ PlayerFiresOrReloads \/ PlayerUpdatesReload

SpecReload == InitReload /\ [][NextReload]_vars

\* ------------------------------------------------------------ claims
\* C1: every collider of the registry that is not a building's belongs to the
\* player or to an NPC or a vehicle its manager still holds (colliders holds the
\* entities' keys only; the buildings' keys never change)
C1_CollidersBelongToHeldEntities == colliders \subseteq Bodies

\* the C1 case: an NPC or a vehicle has been dropped by its manager
C1_Witness ==
  \/ npcIdCounter > Cardinality(DOMAIN npcs)
  \/ vehicleIdCounter > Cardinality(vehicles)

\* C2: a dead Player, NPC or Vehicle stays dead, and a step made while it is dead
\* (a takeDamage call) leaves its health, and an NPC's behaviour and target, as
\* they were
C2_DeadStaysDead ==
  [][/\ player.isDead => player'.isDead /\ player'.health = player.health
     /\ \A n \in DOMAIN npcs \cap DOMAIN npcs' :
          npcs[n].isDead =>
            /\ npcs'[n].isDead
            /\ npcs'[n].health = npcs[n].health
            /\ npcs'[n].behavior = npcs[n].behavior
            /\ npcs'[n].targetPosition = npcs[n].targetPosition
     /\ \A v \in DOMAIN vehicleObjs \cap DOMAIN vehicleObjs' :
          vehicleObjs[v].isDead =>
            /\ vehicleObjs'[v].isDead
            /\ vehicleObjs'[v].health = vehicleObjs[v].health]_vars

\* the C2 case: takeDamage with damage and a new attacker position was called on
\* a dead NPC
C2_Witness ==
  /\ lastCall.op = "NPC.takeDamage"
  /\ lastCall.before.isDead
  /\ lastCall.damage > 0
  /\ lastCall.attackerPosition # NoTarget
  /\ lastCall.attackerPosition # lastCall.before.targetPosition
  /\ lastCall.before.behavior # "chase"

\* C3: health stays within 0..maxHealth and isDead holds exactly at health 0
C3_HealthWithinBounds ==
  /\ player.health >= 0 /\ player.health <= playerMaxHealth
  /\ player.isDead <=> player.health = 0
  /\ \A n \in DOMAIN npcs :
       /\ npcs[n].health >= 0 /\ npcs[n].health <= npcMaxHealth
       /\ npcs[n].isDead <=> npcs[n].health = 0
  /\ \A v \in DOMAIN vehicleObjs :
       /\ vehicleObjs[v].health >= 0 /\ vehicleObjs[v].health <= vehicleMaxHealth
       /\ vehicleObjs[v].isDead <=> vehicleObjs[v].health = 0

\* the C3 case: a takeDamage call took more than the health that was left
C3_Witness ==
  /\ lastCall.op = "Player.takeDamage"
  /\ lastCall.before.health > 0
  /\ lastCall.damage > lastCall.before.health
  /\ player.isDead

\* the NPCs whose isDead turns from false to true in a step
Killed == {n \in DOMAIN npcs \cap DOMAIN npcs' : ~npcs[n].isDead /\ npcs'[n].isDead}

\* C4: in every step the score rises by the number of NPCs whose isDead turns
\* from false to true in that step, and by nothing else (restartGame starts the next
\* run at 0)
C4_ScoreCountsKills ==
  [][IF gameOver /\ ~gameOver'
     THEN score' = 0
     ELSE score' = score + Cardinality(Killed)]_vars

\* the C4 case: two player bullets overlapped the same NPC in one pass, the first
\* killed it, and the score is one
C4_Witness ==
  /\ score = 1
  /\ \E j, k \in 1..Len(hits) :
       /\ j < k
       /\ hits[j].by = "player" /\ hits[k].by = "player"
       /\ hits[j].target[1] = "npc"
       /\ hits[j].after = 0
       /\ hits[j].target \in hits[k].overlap

\* the targets a bullet's turn could pick: overlapped, alive, and not shielded
\* (for the player's bullets the vehicle the player drives, for NPC bullets the
\* player inside a vehicle)
Candidates(h) ==
  {k \in h.overlap \ h.dead :
     IF h.by = "player"
     THEN k[1] = "npc" \/ (k[1] = "vehicle" /\ k[2] # h.driving)
     ELSE (k = PlayerId /\ h.driving = NoVehicle) \/ k[1] = "vehicle"}

\* place of a key in the iteration order of a hit loop: the player, the NPCs by
\* id, the vehicles by id
Rank(k) ==
  IF k[1] = "player" THEN 0
  ELSE IF k[1] = "npc" THEN 1 + k[2]
  ELSE 2 + MaxNpcId + PassNPCs + k[2]

FirstLive(h) ==
  IF Candidates(h) = {} THEN NoBody
  ELSE CHOOSE k \in Candidates(h) : \A m \in Candidates(h) : Rank(k) <= Rank(m)

\* a player bullet and then an NPC bullet were both counted as hitting the same
\* target in this pass
DoubleHit(j, k) ==
  /\ j < k
  /\ hits[j].by = "player" /\ hits[k].by = "npc"
  /\ hits[j].target # NoBody
  /\ hits[j].target = hits[k].target

C6_HitsFirstLiveTargetOnly ==
  \A k \in 1..Len(hits) :
    /\ hits[k].target = FirstLive(hits[k])
    /\ hits[k].removed = (hits[k].target # NoBody)
    /\ hits[k].target # NoBody
         => hits[k].after = Max(0, hits[k].before - hits[k].damage)

\* C7 as claimed: with the player in a vehicle no NPC bullet is counted on the
\* player, an NPC bullet overlapping the occupied vehicle hits that vehicle, and
\* no player bullet hits the occupied vehicle
C7_OccupiedVehicleTakesTheHit ==
  \A k \in 1..Len(hits) :
    LET h == hits[k] IN
    h.driving # NoVehicle =>
      /\ h.by = "npc" => h.target # PlayerId
      /\ (h.by = "npc" /\ VehicleKey(h.driving) \in h.overlap)
           => h.target = VehicleKey(h.driving)
      /\ h.by = "player" => h.target # VehicleKey(h.driving)

\* C7 amended: with the player in a vehicle no NPC bullet is counted on the
\* player, an NPC bullet hits the first live vehicle in the manager's order that it
\* overlaps (the occupied one when it is that vehicle), and no player bullet hits
\* the occupied vehicle
C7_FirstLiveVehicleTakesTheHit ==
  \A k \in 1..Len(hits) :
    LET h == hits[k] IN
    h.driving # NoVehicle =>
      /\ h.by = "npc" => h.target # PlayerId /\ h.target = FirstLive(h)
      /\ h.by = "player" => h.target # VehicleKey(h.driving)

\* the C7 case: an NPC bullet overlapping the player and the occupied vehicle was
\* counted on the vehicle, and a player bullet overlapping the occupied vehicle
\* was not
C7_Witness ==
  /\ player.currentVehicle # NoVehicle
  /\ \E j, k \in 1..Len(hits) :
       /\ hits[j].by = "player"
       /\ VehicleKey(hits[j].driving) \in hits[j].overlap
       /\ hits[k].by = "npc"
       /\ PlayerId \in hits[k].overlap
       /\ hits[k].target = VehicleKey(hits[k].driving)

\* C8: an NPC that died in a combat pass is not run through NPC.update in a later
\* tick: no perception test, behaviour change, movement or shot of a dead NPC
C8_DeadNPCsDoNotAct == deadActed = {}
\* C9: whenever a hit test of a tick runs, the player, the vehicles, the NPCs and
\* both bullet lists have been moved in that tick
C9_MovementBeforeHitTests ==
  pc \in {"checkBulletsHitBuildings", "checkBulletHits", "checkNPCBulletHits"}
    => moved = AllMoved

\* the C9 case: a bullet of each list has had its hit test in this tick
C9_Witness ==
  /\ pc = "checkNPCBulletHits"
  /\ \E j, k \in 1..Len(hits) : hits[j].by = "player" /\ hits[k].by = "npc"
\* C10: Weapon.fire on an empty or reloading weapon returns false and leaves the
\* weapon as it was, and Player.fire with such a weapon adds no bullet and fires
\* no round
C10_FireRejected ==
  /\ (/\ lastCall.op = "Weapon.fire"
      /\ (lastCall.before.currentAmmo = 0 \/ lastCall.before.isReloading))
       => lastCall.result = FALSE /\ weapon = lastCall.before
  /\ (/\ lastCall.op = "Player.fire"
      /\ (lastCall.before.currentAmmo = 0 \/ lastCall.before.isReloading))
       => /\ Len(playerBullets) = lastCall.bullets
          /\ weapon.currentAmmo = lastCall.before.currentAmmo
          /\ weapon.reserveAmmo = lastCall.before.reserveAmmo
          /\ weapon.lastFireTime = lastCall.before.lastFireTime

\* the C10 case: Weapon.fire was called while reloading, rounds in the magazine
\* and the fire interval elapsed
C10_Witness ==
  /\ lastCall.op = "Weapon.fire"
  /\ lastCall.before.isReloading
  /\ lastCall.before.currentAmmo > 0
  /\ Config(lastCall.before.type).fireMode = "semi_auto"
  /\ IntervalElapsed(lastCall.before, now)

\* a successful Weapon.fire was made in this step, directly or by Player.fire
Fired ==
  \/ lastCall'.op = "Weapon.fire" /\ lastCall'.result
  \/ lastCall'.op = "Player.fire" /\ Len(playerBullets') > Len(playerBullets)

\* C11: Player.fire called with a full-auto weapon that has rounds, is not
\* reloading and whose fire interval has elapsed, with a live NPC within
\* auto-shoot range, emits a bullet
C11_FullAutoFiresWhileEnemyInRange ==
  (/\ lastCall.op = "Player.fire"
   /\ lastCall.enemy
   /\ Config(lastCall.before.type).fireMode = "full_auto"
   /\ lastCall.before.currentAmmo > 0
   /\ ~lastCall.before.isReloading
   /\ IntervalElapsed(lastCall.before, now))
    => Len(playerBullets) = lastCall.bullets + 1

\* C12: a successful fire happens only when the fire interval has elapsed since
\* the last successful one, takes exactly one round and stamps lastFireTime with
\* the call time; nothing else moves lastFireTime
C12_FiresOneIntervalApart ==
  [][/\ Fired => /\ IntervalElapsed(weapon, now)
                 /\ weapon'.currentAmmo = weapon.currentAmmo - 1
                 /\ weapon'.lastFireTime = now
     /\ weapon'.lastFireTime # weapon.lastFireTime => Fired]_vars

\* the C12 case: a second shot went off, at least one interval after the first
C12_Witness ==
  /\ lastCall.op = "Weapon.fire"
  /\ lastCall.result
  /\ lastCall.before.lastFireTime > 0
  /\ weapon.lastFireTime = now
  /\ weapon.currentAmmo = lastCall.before.currentAmmo - 1

\* the weapon w is idle with room in its magazine and rounds in reserve
CanStartReload(w) ==
  /\ ~w.isReloading
  /\ w.currentAmmo # Config(w.type).magazineCapacity
  /\ w.reserveAmmo > 0

\* C13: startReload starts a reload (at the call time) only from idle with a
\* magazine not full and rounds in reserve and changes nothing otherwise; the
\* reload Player.fire asks for on an empty magazine never moves the start time
\* of a reload under way
C13_StartReloadOnlyFromIdle ==
  [][/\ lastCall'.op = "Weapon.startReload" =>
          IF CanStartReload(weapon)
          THEN weapon' = [weapon EXCEPT !.isReloading = TRUE,
                                        !.reloadStartTime = now]
          ELSE weapon' = weapon
     /\ (lastCall'.op = "Player.fire" /\ weapon.isReloading) => weapon' = weapon
     /\ (weapon.isReloading /\ weapon'.isReloading)
          => weapon'.reloadStartTime = weapon.reloadStartTime]_vars

\* the C13 case: Player.fire asked for a reload again while the empty weapon was
\* reloading, later than the reload's start
C13_Witness ==
  /\ lastCall.op = "Player.fire"
  /\ lastCall.enemy
  /\ lastCall.before.isReloading
  /\ lastCall.before.currentAmmo = 0
  /\ now > lastCall.before.reloadStartTime

\* C14: updateReload ends a reload exactly when reloadTime has elapsed since its
\* start; the magazine then gains min(capacity - current, reserve) rounds, which
\* leave the reserve (an endless reserve stays endless), and an empty magazine
\* with at least a magazine in reserve ends full
C14_ReloadMovesRoundsFromReserve ==
  [][(lastCall'.op = "Weapon.updateReload" /\ weapon.isReloading) =>
       LET cap == Config(weapon.type).magazineCapacity
           gain == Min(cap - weapon.currentAmmo, weapon.reserveAmmo)
       IN IF now - weapon.reloadStartTime >= Config(weapon.type).reloadTime
          THEN /\ ~weapon'.isReloading
               /\ weapon'.currentAmmo = weapon.currentAmmo + gain
               /\ weapon.reserveAmmo # Infinity =>
                    /\ weapon'.reserveAmmo = weapon.reserveAmmo - gain
                    /\ weapon'.currentAmmo + weapon'.reserveAmmo
                         = weapon.currentAmmo + weapon.reserveAmmo
               /\ weapon.reserveAmmo = Infinity => weapon'.reserveAmmo = Infinity
               /\ (weapon.currentAmmo = 0 /\ weapon.reserveAmmo >= cap)
                    => weapon'.currentAmmo = cap
          ELSE weapon' = weapon]_vars

\* the C14 case: a reload of an empty magazine with exactly one magazine in
\* reserve has completed
C14_Witness ==
  /\ lastCall.op = "Weapon.updateReload"
  /\ lastCall.before.isReloading
  /\ lastCall.before.currentAmmo = 0
  /\ lastCall.before.reserveAmmo = Config(weapon.type).magazineCapacity
  /\ ~weapon.isReloading
  /\ weapon.currentAmmo = Config(weapon.type).magazineCapacity
  /\ weapon.reserveAmmo = 0

\* C15: the magazine holds between 0 and magazineCapacity rounds and the reserve
\* is never negative
C15_AmmoWithinBounds ==
  /\ weapon.currentAmmo >= 0
  /\ weapon.currentAmmo <= Config(weapon.type).magazineCapacity
  /\ weapon.reserveAmmo >= 0

\* the C15 case: a reload completed with more than a magazine in reserve (rounds
\* that addReserveAmmo added) and filled the magazine to its capacity
C15_Witness ==
  /\ lastCall.op = "Weapon.updateReload"
  /\ lastCall.before.isReloading
  /\ lastCall.before.reserveAmmo > Config(weapon.type).magazineCapacity
  /\ lastCall.before.reserveAmmo < Infinity
  /\ ~weapon.isReloading
  /\ weapon.currentAmmo = Config(weapon.type).magazineCapacity

\* C16: a Player.fire call either fires (one round less in the magazine and
\* pelletsPerShot new bullets, each the player's, with the weapon's damage and
\* range) or adds no bullet and takes no round
C16_FireAddsPelletsPerShot ==
  [][lastCall'.op = "Player.fire" =>
       LET added == Len(playerBullets') - Len(playerBullets)
           cfg == Config(weapon.type)
       IN /\ SubSeq(playerBullets', 1, Len(playerBullets)) = playerBullets
          /\ IF weapon'.currentAmmo # weapon.currentAmmo
             THEN /\ weapon'.currentAmmo = weapon.currentAmmo - 1
                  /\ added = cfg.pelletsPerShot
             ELSE added = 0
          /\ \A k \in (Len(playerBullets) + 1)..Len(playerBullets') :
               /\ playerBullets'[k].ownerId = "player"
               /\ playerBullets'[k].damage = cfg.damage
               /\ playerBullets'[k].range = cfg.range]_vars

\* the C16 case: the shotgun fired and eight pellets were added
C16_Witness ==
  /\ lastCall.op = "Player.fire"
  /\ lastCall.before.type = "shotgun"
  /\ weapon.currentAmmo = lastCall.before.currentAmmo - 1
  /\ Len(playerBullets) = lastCall.bullets + 8

\* C17: the player's current weapon type is always a key of the player's weapons
\* map, and a switchWeapon to a type the player does not own leaves the current
\* weapon type as it was
C17_CurrentWeaponIsOwned ==
  /\ currentWeaponType \in DOMAIN weapons
  /\ (lastCall.op = "Player.switchWeapon" /\ lastCall.weaponType \notin lastCall.owned)
       => currentWeaponType = lastCall.before

\* the C17 case: on foot, switchWeapon to a rifle the player does not own
C17_Witness ==
  /\ lastCall.op = "Player.switchWeapon"
  /\ lastCall.weaponType = "rifle"
  /\ "rifle" \notin lastCall.owned
  /\ "shotgun" \in lastCall.owned
  /\ player.currentVehicle = NoVehicle

C19_NoNPCFlees ==
  \A n \in DOMAIN npcs : npcs[n].behavior \in {"idle", "patrol", "chase"}

\* the C19 case: an NPC that was hit by a bullet and has chased
C19_Witness ==
  \E n \in DOMAIN npcs :
    /\ npcs[n].health < npcMaxHealth
    /\ ~npcs[n].isDead
    /\ npcs[n].behavior = "chase"
    /\ npcs[n].position # npcs[n].patrolPoint

\* C20 as claimed: a takeDamage on a live NPC leaves it chasing the attacker's
\* position, and it still chases that position after its next update
C20_DamageForcesLastingChase ==
  /\ (lastCall.op = "NPC.takeDamage" /\ ~lastCall.before.isDead)
       => /\ npcs[0].behavior = "chase"
          /\ npcs[0].targetPosition = lastCall.attackerPosition
  /\ (lastCall.op = "NPC.update" /\ lastCall.afterDamage)
       => /\ npcs[0].behavior = "chase"
          /\ npcs[0].targetPosition = lastCall.before.targetPosition

\* C20 amended: a takeDamage on a live NPC leaves it chasing the attacker's
\* position whatever it did before; after its next update it chases exactly when
\* it perceived the player in that update, its target then the player's position,
\* and otherwise it has left Chase
C20_DamageForcesChaseUntilNextUpdate ==
  /\ (lastCall.op = "NPC.takeDamage" /\ ~lastCall.before.isDead)
       => /\ npcs[0].behavior = "chase"
          /\ npcs[0].targetPosition = lastCall.attackerPosition
  /\ (lastCall.op = "NPC.update" /\ lastCall.afterDamage)
       => /\ lastCall.before.behavior = "chase"
          /\ IF lastCall.seen
             THEN /\ npcs[0].behavior = "chase"
                  /\ npcs[0].targetPosition = lastCall.playerPosition
             ELSE npcs[0].behavior \in {"patrol", "idle"}

\* the C20 case: an idle NPC was hit, chased the attacker's position, and did
\* not perceive the player in its next update
C20_Witness ==
  /\ lastCall.op = "NPC.update"
  /\ lastCall.afterDamage
  /\ ~lastCall.seen
  /\ ~lastCall.before.isDead
  /\ lastCall.before.patrolPoint = NoTarget
  /\ npcs[0].behavior # "chase"

\* C21: an NPC invokes its shoot callback only in an update in which it perceives
\* the player, being in Chase then, once in that update and at least shotCooldown
\* after its previous invocation; the bullet added is owned by the NPC's id; and
\* every NPC the manager creates once createNPC is replaced has the callback
C21_ShootsOnlyWhenPerceivingAndCooled ==
  /\ lastCall.op = "NPC.update" /\ lastCall.shot =>
       /\ lastCall.seen
       /\ lastCall.behavior = "chase"
       /\ lastCall.currentTime - lastCall.lastShotTime >= shotCooldown
       /\ Len(npcBullets) = lastCall.bullets + 1
       /\ npcBullets[Len(npcBullets)].ownerId = NpcKey(lastCall.id)
  /\ lastCall.op = "NPC.update" /\ ~lastCall.shot =>
       Len(npcBullets) = lastCall.bullets
  /\ lastCall.op = "NPCManager.createNPC" /\ lastCall.wrapped =>
       lastCall.id \in onShoot

\* the second NPC of a run shoots for the second time
C21_Witness ==
  /\ lastCall.op = "NPC.update"
  /\ lastCall.shot
  /\ lastCall.id = 1
  /\ lastCall.lastShotTime > 0

\* the angle between two directions given in degrees, between 0 and 180
AngularDifference(a, b) ==
  LET m == (a - b) % 360 IN IF m > 180 THEN 360 - m ELSE m

\* C22: isPointInVision(p) is true exactly when the distance to p is at most
\* visionRange and the bearing to p is within visionAngle / 2 of the facing
\* angle; facing 0 with visionAngle 120 sees a target in range at bearing 59 and
\* does not see one at bearing 61
C22_VisionIsRangeAndHalfAngle ==
  lastCall.op = "NPC.isPointInVision" =>
    /\ lastCall.result =
         (/\ lastCall.distance <= visionRange
          /\ 2 * AngularDifference(lastCall.pointAngle, lastCall.directionAngle)
               <= visionAngle)
    /\ (/\ lastCall.directionAngle = 0
        /\ lastCall.distance <= visionRange
        /\ visionAngle = 120) =>
         /\ lastCall.pointAngle = 59 => lastCall.result
         /\ lastCall.pointAngle = 61 => ~lastCall.result

\* a target in range at bearing 59 of an NPC facing 0 is seen
C22_Witness ==
  /\ lastCall.op = "NPC.isPointInVision"
  /\ lastCall.directionAngle = 0
  /\ lastCall.pointAngle = 59
  /\ lastCall.distance = visionRange
  /\ lastCall.result

\* this.position of the player or the NPC registered under id
WalkerPosition(id) ==
  IF id = PlayerId THEN player.position ELSE npcs[id[2]].position

\* C23: an on-foot player or an NPC that collides with nothing when its update
\* starts collides with nothing when it ends: the collider is where the entity
\* is and getCollisions of its id is empty
C23_FreeBeforeUpdateFreeAfter ==
  (/\ lastCall.op \in {"Player.update", "NPC.update"}
   /\ lastCall.collisions = {}) =>
    /\ GetCollisions(registry, lastCall.id) = {}
    /\ lastCall.id \in DOMAIN registry =>
         registry[lastCall.id].position = WalkerPosition(lastCall.id)

\* a player that was free and whose full displacement was refused
C23_Witness ==
  /\ lastCall.op = "Player.update"
  /\ lastCall.collisions = {}
  /\ lastCall.blocked
  /\ PlayerId \in DOMAIN registry

\* C29: with an id that is not registered, isColliding and pointInCollider
\* return false, getCollisions returns nothing, the two normal computations
\* return null, and updatePosition and unregister leave the registry as it was
C29_AbsentIdChangesNothing ==
  /\ lastCall.op = "CollisionSystem.query" =>
       /\ (lastCall.id1 \notin DOMAIN registry
              \/ lastCall.id2 \notin DOMAIN registry) =>
            /\ ~lastCall.isColliding
            /\ lastCall.normal = NullNormal
            /\ lastCall.normalCircleRect = NullNormal
       /\ lastCall.id1 \notin DOMAIN registry =>
            /\ lastCall.getCollisions = {}
            /\ ~lastCall.pointInCollider
  /\ (/\ lastCall.op \in {"CollisionSystem.updatePosition",
                          "CollisionSystem.unregister"}
      /\ lastCall.id \notin DOMAIN lastCall.before) =>
       registry = lastCall.before

\* updatePosition was called with an id that is not registered while the NPC of
\* the run is
C29_Witness ==
  /\ lastCall.op = "CollisionSystem.updatePosition"
  /\ lastCall.id = NpcKey(1)
  /\ NpcKey(0) \in DOMAIN lastCall.before

\* C30: isColliding gives the same answer for a pair in either order, whatever
\* the two shapes, and getCollisions of an id never lists that id
C30_IsCollidingIsSymmetric ==
  lastCall.op = "CollisionSystem.query" =>
    /\ lastCall.isColliding = lastCall.swapped
    /\ lastCall.id1 \notin lastCall.getCollisions

\* a building asked about a circle it overlaps
C30_Witness ==
  /\ lastCall.op = "CollisionSystem.query"
  /\ lastCall.id1 \in DOMAIN registry
  /\ lastCall.id2 \in DOMAIN registry
  /\ registry[lastCall.id1].type = "rect"
  /\ registry[lastCall.id2].type = "circle"
  /\ lastCall.isColliding

\* C26: at the end of a tick (after checkDestroyedVehicles) the player is not in
\* a destroyed vehicle: a vehicle that died under the player in this tick, from
\* a bullet or from a crash, has been left
C26_DestroyedVehicleIsLeft ==
  (pc = "endUpdate" /\ player.currentVehicle # NoVehicle) =>
    ~vehicleObjs[player.currentVehicle].isDead

\* C28: in a vehicle the current weapon is the pistol; entering remembers the
\* weapon that was current, nothing changes what is remembered while the player
\* is in the vehicle, and leaving makes the remembered weapon current again
C28_PistolOnlyInVehicle ==
  [][/\ player'.currentVehicle # NoVehicle => currentWeaponType' = "pistol"
     /\ (player.currentVehicle = NoVehicle /\ player'.currentVehicle # NoVehicle) =>
          weaponBeforeVehicle' = currentWeaponType
     /\ (player.currentVehicle # NoVehicle /\ player'.currentVehicle # NoVehicle) =>
          weaponBeforeVehicle' = weaponBeforeVehicle
     /\ (player.currentVehicle # NoVehicle /\ player'.currentVehicle = NoVehicle) =>
          currentWeaponType' = weaponBeforeVehicle]_vars

\* in a vehicle, the player who owns a rifle has asked for it
C28_Witness ==
  /\ player.currentVehicle # NoVehicle
  /\ lastCall.op = "Player.switchWeapon"
  /\ lastCall.weaponType = "rifle"
  /\ "rifle" \in DOMAIN weapons
  /\ weaponBeforeVehicle = "rifle"

\* C24: an update of the vehicle whose tentative position collides at a speed
\* above 50 takes max(1, floor(speed / 30)) off the vehicle's health
C24_CollisionAboveThresholdDamages ==
  (/\ lastCall.op = "Vehicle.update"
   /\ lastCall.collisions # {}
   /\ Speed2(Scale(lastCall.before.velocity, friction, 100)) > Sq(ToUnits(50))) =>
    vehicleObjs[0].health =
      VehicleTakeDamage(lastCall.before,
        ImpactDamage(Speed2(Scale(lastCall.before.velocity, friction, 100)))).health

\* the C24 case where the damage is taken: both axes blocked at about 99 px/s
C24_Witness ==
  /\ lastCall.op = "Vehicle.update"
  /\ lastCall.branch = "normal"
  /\ lastCall.damage = 3
  /\ vehicleObjs[0].health = vehicleMaxHealth - 3

\* C25: after any calls of accelerate, decelerate and update the speed of the
\* vehicle is at most maxSpeed
C25_SpeedAtMostMaxSpeed ==
  moved \subseteq {"Vehicle.accelerate", "Vehicle.decelerate", "Vehicle.update"} =>
    Speed2(vehicleObjs[0].velocity) <= Sq(ToUnits(maxSpeed))

C31_CirclesCollideStrictlyInside ==
  /\ (/\ lastCall.op = "CollisionSystem.query"
      /\ lastCall.id1 \in DOMAIN registry
      /\ lastCall.id2 \in DOMAIN registry
      /\ registry[lastCall.id1].type = "circle"
      /\ registry[lastCall.id2].type = "circle") =>
       LET a == registry[lastCall.id1]
           b == registry[lastCall.id2]
       IN /\ lastCall.isColliding <=>
               ~(Distance2(a.position, b.position) >= Sq(a.radius + b.radius))
          /\ Distance2(a.position, b.position) = Sq(a.radius + b.radius) =>
               ~lastCall.isColliding
  /\ lastCall.op = "Game.checkBulletHits" =>
       LET target == npcs[lastCall.id[2]] IN
       /\ lastCall.hit <=>
            IsColliding([k \in {"bullet", "target"} |->
                           IF k = "bullet"
                           THEN Circle(lastCall.bulletPos, pistolBulletSize)
                           ELSE Circle(target.position, npcRadius)],
                        "bullet", "target")
       /\ Distance2(lastCall.bulletPos, target.position)
            = Sq(pistolBulletSize + npcRadius) => ~lastCall.hit

\* the player and an NPC that touch have been asked about
C31_Witness ==
  /\ lastCall.op = "CollisionSystem.query"
  /\ lastCall.id1 = PlayerId
  /\ lastCall.id2 = NpcKey(0)
  /\ NpcKey(0) \in DOMAIN registry
  /\ Distance2(registry[PlayerId].position, registry[NpcKey(0)].position)
       = Sq(playerRadius + npcRadius)
  /\ ~lastCall.isColliding

\* a bullet that touches an NPC has been tested against it
C31_WitnessBullet ==
  /\ lastCall.op = "Game.checkBulletHits"
  /\ Distance2(lastCall.bulletPos, npcs[lastCall.id[2]].position)
       = Sq(pistolBulletSize + npcRadius)
  /\ ~lastCall.hit

\* the walker registered under id would collide with nothing at position p
FreeAt(reg, id, p) == GetCollisions(UpdatePosition(reg, id, p), id) = {}

\* C32: an update of the player on foot or of an NPC ends at the full
\* displacement if that position is free, else at the X-only displacement if
\* that is free, else at the Y-only displacement if that is free, else where it
\* started; the collider ends where the walker does, and the velocity the
\* displacement was computed from is still the walker's velocity
C32_SlideTriesXBeforeY ==
  lastCall.op \in {"Player.update", "NPC.update"} =>
    LET p == lastCall.position
        dx == (lastCall.velocity[1] * lastCall.deltaTime) \div 10
        dy == (lastCall.velocity[2] * lastCall.deltaTime) \div 10
        expected ==
          IF FreeAt(lastCall.before, lastCall.id, <<p[1] + dx, p[2] + dy>>)
          THEN <<p[1] + dx, p[2] + dy>>
          ELSE IF FreeAt(lastCall.before, lastCall.id, <<p[1] + dx, p[2]>>)
          THEN <<p[1] + dx, p[2]>>
          ELSE IF FreeAt(lastCall.before, lastCall.id, <<p[1], p[2] + dy>>)
          THEN <<p[1], p[2] + dy>>
          ELSE p
    IN /\ WalkerPosition(lastCall.id) = expected
       /\ registry[lastCall.id].position = expected
       /\ lastCall.velocityAfter = lastCall.velocity
       /\ \A k \in DOMAIN registry \ {lastCall.id} : registry[k] = lastCall.before[k]

\* a player whose full displacement is blocked and who could slide along either
\* axis: the slide is along X
C32_Witness ==
  /\ lastCall.op = "Player.update"
  /\ lastCall.velocity[1] # 0
  /\ lastCall.velocity[2] # 0
  /\ ~FreeAt(lastCall.before, PlayerId,
             <<lastCall.position[1] + (lastCall.velocity[1] * lastCall.deltaTime) \div 10,
               lastCall.position[2] + (lastCall.velocity[2] * lastCall.deltaTime) \div 10>>)
  /\ FreeAt(lastCall.before, PlayerId,
            <<lastCall.position[1] + (lastCall.velocity[1] * lastCall.deltaTime) \div 10,
              lastCall.position[2]>>)
  /\ FreeAt(lastCall.before, PlayerId,
            <<lastCall.position[1],
              lastCall.position[2] + (lastCall.velocity[2] * lastCall.deltaTime) \div 10>>)
  /\ player.position[2] = lastCall.position[2]
  /\ player.position[1] # lastCall.position[1]

\* the velocity Vehicle.update moves the vehicle by (after friction), and the
\* three positions it tests, in the update lastCall records
UpdateVelocity == Scale(lastCall.before.velocity, friction, 100)
UpdateFull ==
  <<lastCall.before.position[1] + Displacement(UpdateVelocity, lastCall.deltaTime)[1],
    lastCall.before.position[2] + Displacement(UpdateVelocity, lastCall.deltaTime)[2]>>
UpdateTestX == <<UpdateFull[1], lastCall.before.position[2]>>
UpdateTestY == <<lastCall.before.position[1], UpdateFull[2]>>

\* C33: an update of the vehicle whose full move collides ends at the X-only
\* position if that is free, with vx kept and vy replaced by -vy * restitution,
\* else at the Y-only position if that is free, with vy kept and vx replaced by
\* -vx * restitution (the velocity being the one after the update's friction,
\* and a product cut to the unit of the velocity)
C33_FreeAxisKeptBlockedAxisReflected ==
  (/\ lastCall.op = "Vehicle.update"
   /\ ~FreeAt(registry, VehicleKey(0), UpdateFull)) =>
    LET v == vehicleObjs[0] IN
    IF FreeAt(registry, VehicleKey(0), UpdateTestX)
    THEN /\ v.position = UpdateTestX
         /\ registry[VehicleKey(0)].position = UpdateTestX
         /\ v.velocity[1] = UpdateVelocity[1]
         /\ Abs(10 * v.velocity[2] + restitution * UpdateVelocity[2]) < 10
         /\ v.velocity[2] * UpdateVelocity[2] <= 0
    ELSE FreeAt(registry, VehicleKey(0), UpdateTestY) =>
         /\ v.position = UpdateTestY
         /\ registry[VehicleKey(0)].position = UpdateTestY
         /\ v.velocity[2] = UpdateVelocity[2]
         /\ Abs(10 * v.velocity[1] + restitution * UpdateVelocity[1]) < 10
         /\ v.velocity[1] * UpdateVelocity[1] <= 0

\* a vehicle moving on neither axis has slid along X and bounced in Y
C33_Witness ==
  /\ lastCall.op = "Vehicle.update"
  /\ ~FreeAt(registry, VehicleKey(0), UpdateFull)
  /\ FreeAt(registry, VehicleKey(0), UpdateTestX)
  /\ UpdateVelocity[1] # 0
  /\ UpdateVelocity[2] # 0
  /\ vehicleObjs[0].position # lastCall.before.position
  /\ vehicleObjs[0].velocity[2] # 0

\* from the collider registered under id to the vehicle: from its centre if it
\* is a circle, from its closest point if it is a rect
AwayFrom(id) ==
  LET c == registry[id]
      p == registry[VehicleKey(0)].position
  IN IF c.type = "circle"
     THEN <<p[1] - c.position[1], p[2] - c.position[2]>>
     ELSE <<p[1] - Max(c.position[1], Min(p[1], c.position[1] + c.width)),
            p[2] - Max(c.position[2], Min(p[2], c.position[2] + c.height))>>

Dot(a, b) == a[1] * b[1] + a[2] * b[2]

\* an update in which both axes were blocked and id is the collider the normal
\* was asked for (the first of the colliders of the full move), the vehicle
\* moving toward it
BlockedBy(id) ==
  /\ lastCall.op = "Vehicle.update"
  /\ id \in lastCall.collisions
  /\ FirstCollider(lastCall.collisions) = id
  /\ ~FreeAt(registry, VehicleKey(0), UpdateTestX)
  /\ ~FreeAt(registry, VehicleKey(0), UpdateTestY)
  /\ Dot(UpdateVelocity, AwayFrom(id)) < 0

\* C34: after an update in which a collider the vehicle was moving toward
\* blocked both axes, the velocity does not point toward that collider any
\* more, whether the collider is a rect or a circle
C34_BlockedBothAxesTurnsAway ==
  \A id \in DOMAIN registry \ {VehicleKey(0)} :
    BlockedBy(id) => Dot(vehicleObjs[0].velocity, AwayFrom(id)) >= 0

\* the vehicle has bounced off the wall that blocked both axes
C34_Witness ==
  /\ BlockedBy(BuildingKey(0))
  /\ Dot(vehicleObjs[0].velocity, AwayFrom(BuildingKey(0))) > 0
  /\ vehicleObjs[0].velocity[2] = UpdateVelocity[2]

\* the bullet numbered id is in a list, and in the manager's list
InList(bullets, id) == \E k \in 1..Len(bullets) : bullets[k].id = id
InFlight(id) == InList(playerBullets, id)

\* the bullet numbered id of a list
BulletOf(bullets, id) ==
  bullets[CHOOSE k \in 1..Len(bullets) : bullets[k].id = id]

\* C35: in a BulletManager.update every bullet of the list is advanced once, by
\* its speed times deltaTime, which is more than nothing when deltaTime is
\* positive; it is gone afterwards exactly if that takes it beyond its range,
\* and the bullets left keep their order; so no bullet of the list is ever beyond
\* its range after an update, and with ticks of positive deltaTime occurring
\* again and again every bullet leaves the list
C35_EveryBulletIsDestroyed ==
  /\ [][lastCall'.op = "BulletManager.update" =>
          /\ \A k \in 1..Len(playerBullets) :
               LET b == playerBullets[k]
                   to == b.distanceTraveled + (b.bulletSpeed * lastCall'.deltaTime) \div 10
               IN /\ lastCall'.deltaTime > 0 => to > b.distanceTraveled
                  /\ IF to > b.range
                     THEN ~InList(playerBullets', b.id)
                     ELSE /\ InList(playerBullets', b.id)
                          /\ BulletOf(playerBullets', b.id).distanceTraveled = to
          /\ Len(playerBullets') <= Len(playerBullets)
          /\ \A k \in 1..Len(playerBullets') : ~IsOutOfRange(playerBullets'[k])
          /\ \A j, k \in 1..Len(playerBullets') :
               j < k =>
                 \E m, n \in 1..Len(playerBullets) :
                   /\ m < n
                   /\ playerBullets[m].id = playerBullets'[j].id
                   /\ playerBullets[n].id = playerBullets'[k].id]_vars
  /\ \A id \in 0..(MaxBulletsMade - 1) : InFlight(id) ~> ~InFlight(id)

\* an update has removed the first bullet of the list, beyond its range, and kept
\* and advanced the second
C35_Witness ==
  /\ lastCall.op = "BulletManager.update"
  /\ lastCall.deltaTime > 0
  /\ Len(playerBullets) = 1
  /\ playerBullets[1].id > 0
  /\ playerBullets[1].distanceTraveled > 0
  /\ i = 2
  /\ ~InFlight(0)

\* C36: after Vehicle.update the vehicle's collider is where the vehicle is, and
\* after Player.update and Player.exitVehicle the player's collider is where the
\* player is, also while the player rides in the vehicle
C36_ColliderIsWhereTheEntityIs ==
  /\ lastCall.op = "Vehicle.update" =>
       registry[VehicleKey(0)].position = vehicleObjs[0].position
  /\ lastCall.op \in {"Player.update", "Player.exitVehicle"} =>
       registry[PlayerId].position = player.position

\* the C36 case that holds: an update has moved the vehicle, and its collider
C36_Witness ==
  /\ lastCall.op = "Vehicle.update"
  /\ vehicleObjs[0].position # lastCall.before.position
  /\ registry[VehicleKey(0)].position = vehicleObjs[0].position

\* C37: an NPC with a route that is in Patrol has the waypoint at
\* currentPatrolIndex as its target, the index within the route; and an update
\* moves the index only from a waypoint the NPC is within 10 of, to the next one
\* in cyclic order, so that no waypoint is skipped
C37_PatrolVisitsWaypointsInOrder ==
  LET n == npcs[0]
      size == Len(n.patrolPoints)
  IN pc = "patrol" /\ size > 0 =>
       /\ n.currentPatrolIndex \in 0..(size - 1)
       /\ n.behavior = "patrol" =>
            n.targetPosition = n.patrolPoints[n.currentPatrolIndex + 1]
       /\ lastCall.op = "NPC.update"
            /\ n.currentPatrolIndex # lastCall.before.currentPatrolIndex =>
            /\ n.currentPatrolIndex = (lastCall.before.currentPatrolIndex + 1) % size
            /\ Distance2(lastCall.before.position,
                         n.patrolPoints[lastCall.before.currentPatrolIndex + 1])
                 < Sq(arrivalDistance)

\* the C37 case that holds: the NPC, never interrupted, has arrived at the third
\* waypoint and turns to the fourth
C37_Witness ==
  /\ pc = "patrol" /\ lastCall.op = "NPC.update"
  /\ lastCall.before.behavior = "patrol" /\ lastCall.before.currentPatrolIndex = 2
  /\ lastCall.before.position = lastCall.before.patrolPoints[3]
  /\ npcs[0].currentPatrolIndex = 3
  /\ npcs[0].targetPosition = npcs[0].patrolPoints[4]

\* C38: at the end of a tick a dead player means the game is over; while the
\* game stays over Game.update changes nothing; and a restart leaves the score at
\* 0, the game not over and a new player, alive, at full health, holding the
\* pistol alone
C38_GameOverFreezesRestartResets ==
  /\ [](pc = "update" /\ player.isDead => gameOver)
  /\ [][ /\ gameOver /\ gameOver' => UNCHANGED vars
         /\ gameOver /\ ~gameOver' =>
              /\ score' = 0
              /\ ~player'.isDead
              /\ player'.health = playerMaxHealth
              /\ DOMAIN weapons' = {"pistol"}
              /\ currentWeaponType' = "pistol" ]_vars

\* the C38 case: the player has died with points scored and the game is over
C38_Witness ==
  /\ pc = "update" /\ gameOver
  /\ player.isDead /\ player.health = 0
  /\ score > 0

\* C39: F counts as just pressed in one frame at most after it went down, and the
\* player has entered or left a vehicle at most once for every time F went down
C39_JustPressedLastsOneFrame ==
  pc \in {"input", "inputEnd"} /\ lastCall.op # "new" =>
    /\ lastCall.seen <= 1
    /\ lastCall.interactions <= i

\* the C39 case that holds: F is held down over several frames and the player
\* has entered the vehicle once
C39_Witness ==
  /\ pc = "input" /\ lastCall.op = "Game.update"
  /\ keys["f"] /\ i = 1 /\ now >= 3
  /\ lastCall.interactions = 1 /\ lastCall.seen = 1
  /\ player.currentVehicle # NoVehicle

\* the part of C39 that holds in every run: at most one interaction per press
C39_OncePerPress ==
  pc \in {"input", "inputEnd"} /\ lastCall.op # "new" => lastCall.interactions <= i

\* C40: while the weapon in hand is reloading, getReloadProgress(now) is the
\* time since the reload started over reloadTime, at most 1
C40_ProgressCountsFromReloadStart ==
  pc = "reload" /\ weapon.isReloading =>
    GetReloadProgress(weapon, lastReloadTime, now)
      = GetReloadProgress(weapon, weapon.reloadStartTime, now)

\* the C40 case that holds: a reload begun by Player.fire on an empty magazine is
\* under way and was not asked for again
C40_Witness ==
  /\ pc = "reload" /\ weapon.isReloading
  /\ weapon.currentAmmo = 0
  /\ now > weapon.reloadStartTime
  /\ lastReloadTime = weapon.reloadStartTime
  /\ GetReloadProgress(weapon, lastReloadTime, now) > 0

====
